---- MODULE Spec2Model ----
(***************************************************************************)
(* LRremote: an infrared remote-control receiver for AVR.                  *)
(*                                                                         *)
(* A timer interrupt (the sampler) samples the receiver pin every 50 us    *)
(* and records the durations of alternating SPACE / MARK levels in rawbuf. *)
(* The foreground polls onButton(), which decodes a completed recording    *)
(* with a chain of protocol matchers, looks the value up in the caller's   *)
(* code table, handles REPEAT codes and restarts the recording.            *)
(*                                                                         *)
(* Widths are those of the AVR build: int and unsigned int are 16 bits,    *)
(* long and unsigned long are 32 bits.                                     *)
(***************************************************************************)
EXTENDS Integers, Sequences, FiniteSets

VARIABLES
    rcvstate,           \* volatile int rcvstate: state of the ISR state machine
    timer,              \* volatile unsigned int timer: 50 us ticks in the current level
    rawbuf,             \* volatile unsigned int rawbuf[RAWBUF]
    rawlen,             \* volatile unsigned int rawlen: entries recorded in rawbuf
    wrIx,               \* index of the ISR's most recent write to rawbuf (-1: none yet)
    decode_type,        \* LRremote::decode_type
    value,              \* LRremote::value (unsigned long)
    bits,               \* LRremote::bits
    panasonicAddress,   \* LRremote::panasonicAddress (unsigned int)
    unwritten,          \* the names of those of the four fields above that nothing
                        \* has written since the constructor, which writes none of
                        \* them: such a field holds what the storage of the object
                        \* held, and the value it has here stands for any value
    lastValue,          \* LRremote::lastValue (long)
    repeat,             \* LRremote::repeat
    code,               \* the code[] table the sketch passes to onButton (longs)
    built,              \* calls of the constructor LRremote::LRremote() made so far
    pc,                 \* position of the foreground: "idle", or inside resume()
    caller,             \* who called the resume() in progress: "decode" / "onButton"
    decodeRet,          \* what decode() returned in the call in progress / just made
    matcher,            \* the matcher whose result decode() returned ("none" if none)
    ret,                \* what the onButton call in progress / just made returns
    invoked,            \* indices of fButton[] invoked by that call, in order
    last,               \* the step taken last: "init", "tick", "onButton", "resume", ...
    signal,             \* the frames the remote still sends (input of the receiver pin)
    pos,                \* index of the current level run in the frame being sent
    run,                \* ticks of that run already sampled
    wait,               \* ticks sampled since the recording stopped
    chain,              \* REPEAT polls in a row since a mapped button was accepted (-1: none)
    accepted,           \* the value accepted by that poll
    decoded,            \* <<what decode() last returned for the recording that still
                        \* waits>>; <<>> if it was not called on it yet
    cursor,             \* getRClevel's *offset, *used and t1, the level it returned
                        \* last and the calls made since *offset last moved
    recent              \* the value of the frame decoded last that was not REPEAT
                        \* (known: there was one) and the REPEAT frames since

vars == <<rcvstate, timer, rawbuf, rawlen, wrIx, decode_type, value, bits,
          panasonicAddress, unwritten, lastValue, repeat, code, built, pc, caller,
          decodeRet,
          matcher, ret, invoked, last, signal, pos, run, wait, chain, accepted,
          decoded, cursor, recent>>

\* No walk over rawbuf with getRClevel is going on (level -2: no call made)
NoWalk == [offset |-> 0, used |-> 0, t1 |-> 0, level |-> -2, n |-> 0, calls |-> 0]

\* No frame other than REPEAT was decoded yet
NoButton == [known |-> FALSE, value |-> 0, since |-> 0]

isrVars == <<rcvstate, timer, rawbuf, rawlen, wrIx>>
decodedVars == <<decode_type, value, bits, panasonicAddress, unwritten>>
envVars == <<signal, pos, run>>

(***************************************************************************)
(* Integer widths.  A 32-bit quantity (long, unsigned long) is modelled by *)
(* the long that has its bits, in -2^31 .. 2^31 - 1: two such quantities   *)
(* compare equal in C (after the usual conversions) exactly when these are *)
(* equal.  So 0xffffffff is -1.                                            *)
(***************************************************************************)
U16 == 65536
MinLong == -2147483647 - 1

\* (int) of an unsigned int
ToInt(x) == IF x >= 32768 THEN x - U16 ELSE x

\* Bit 31 of a 32-bit quantity
Bit31(x) == IF x < 0 THEN 1 ELSE 0

\* (x << 1) | b on 32 bits
Shl1(x, b) ==
    LET low30 == x % 1073741824
        bit30 == (x \div 1073741824) % 2
    IN  IF bit30 = 1 THEN MinLong + (2 * low30 + b) ELSE 2 * low30 + b

\* The 32-bit quantity with high half hi and low half lo (each 0 .. 65535)
Word(hi, lo) == IF hi >= 32768 THEN (hi - U16) * U16 + lo ELSE hi * U16 + lo
Hi16(x) == (x \div U16) % U16
Lo16(x) == x % U16

(***************************************************************************)
(* LRremote.h                                                              *)
(***************************************************************************)
NEC == 1
SONY == 2
RC5 == 3
RC6 == 4
PANASONIC == 7
JVC == 8
SANYO == 9
MITSUBISHI == 10
SAMSUNG == 11
LG == 12
UNKNOWN == -1

RAWBUF == 100
REPEAT == -1
REPEAT_PAUSE == 3
MARK_EXCESS == 100

(***************************************************************************)
(* LRremoteInt.h (not part of the sources at hand): receiver levels, ISR   *)
(* states, tick length, tolerance and the protocols' nominal timings.      *)
(***************************************************************************)
MARK == 0
SPACE == 1

STATE_IDLE == 2
STATE_MARK == 3
STATE_SPACE == 4
STATE_STOP == 5

USECPERTICK == 50
GAP_US == 5000
GAP_TICKS == GAP_US \div USECPERTICK
TOLERANCE == 20

TICKS_LOW(us) == (us * (100 - TOLERANCE)) \div (100 * USECPERTICK)
TICKS_HIGH(us) == (us * (100 + TOLERANCE)) \div (100 * USECPERTICK) + 1

NEC_HDR_MARK == 9000
NEC_HDR_SPACE == 4500
NEC_BIT_MARK == 560
NEC_ONE_SPACE == 1690
NEC_ZERO_SPACE == 560
NEC_RPT_SPACE == 2250
NEC_BITS == 32

SONY_HDR_MARK == 2400
SONY_HDR_SPACE == 600
SONY_ONE_MARK == 1200
SONY_ZERO_MARK == 600
SONY_DOUBLE_SPACE_USECS == 500
SONY_BITS == 12

SANYO_HDR_MARK == 3500
SANYO_HDR_SPACE == 950
SANYO_ONE_MARK == 2400
SANYO_ZERO_MARK == 700
SANYO_DOUBLE_SPACE_USECS == 800
SANYO_BITS == 12

MITSUBISHI_HDR_SPACE == 350
MITSUBISHI_ONE_MARK == 1950
MITSUBISHI_ZERO_MARK == 750
MITSUBISHI_BITS == 16

RC5_T1 == 889
MIN_RC5_SAMPLES == 11
RC6_HDR_MARK == 2666
RC6_HDR_SPACE == 889
RC6_T1 == 444
MIN_RC6_SAMPLES == 1

PANASONIC_HDR_MARK == 3502
PANASONIC_HDR_SPACE == 1750
PANASONIC_BIT_MARK == 502
PANASONIC_ONE_SPACE == 1244
PANASONIC_ZERO_SPACE == 400
PANASONIC_BITS == 48

LG_HDR_MARK == 8000
LG_HDR_SPACE == 4000
LG_BIT_MARK == 600
LG_ONE_SPACE == 1600
LG_ZERO_SPACE == 550
LG_BITS == 28

JVC_HDR_MARK == 8000
JVC_HDR_SPACE == 4000
JVC_BIT_MARK == 600
JVC_ONE_SPACE == 1600
JVC_ZERO_SPACE == 550
JVC_BITS == 16

SAMSUNG_HDR_MARK == 5000
SAMSUNG_HDR_SPACE == 5000
SAMSUNG_BIT_MARK == 560
SAMSUNG_ONE_SPACE == 1600
SAMSUNG_ZERO_SPACE == 560
SAMSUNG_RPT_SPACE == 2250
SAMSUNG_BITS == 32

(***************************************************************************)
(* Matching primitives                                                     *)
(***************************************************************************)
\* int MATCH(int measured, int desired)
MATCH(measured, desired) ==
    /\ ToInt(measured) >= TICKS_LOW(desired)
    /\ ToInt(measured) <= TICKS_HIGH(desired)

MATCH_MARK(measured_ticks, desired_us) == MATCH(measured_ticks, desired_us + MARK_EXCESS)

MATCH_SPACE(measured_ticks, desired_us) == MATCH(measured_ticks, desired_us - MARK_EXCESS)

(***************************************************************************)
(* The sampler: ISR(TIMER_INTR_NAME)                                       *)
(***************************************************************************)
\* rawbuf[i] = v. A write past the end of the array is recorded in wrIx only.
Store(buf, i, v) == IF i \in DOMAIN buf THEN [buf EXCEPT ![i] = v] ELSE buf

\* Variant of BufferFull that is off by one: the buffer counts as full only
\* once an entry has been written past its end.
BufferOverfull(len) == len > RAWBUF

\* Variant of BufferFull without the test: the sampler writes on past the end
BufferNeverFull(len) == FALSE

\* if (rawlen >= RAWBUF): the buffer is full to capacity
BufferFull(len) == len >= RAWBUF

\* case STATE_STOP: timer = 0; break;
StopCase(s, irdata) == [s EXCEPT !.rcvstate = STATE_STOP, !.timer = 0]

\* case STATE_IDLE, timer++ done: a MARK after less than a gap is ignored, a
\* MARK after a gap starts a recording with the gap as rawbuf[0]; while the
\* gap goes on, timer stays at GAP_TICKS
IdleCase(s, irdata) ==
    LET t == (s.timer + 1) % U16
    IN  IF irdata = MARK
        THEN IF t < GAP_TICKS
             THEN [s EXCEPT !.timer = 0]
             ELSE [rcvstate |-> STATE_MARK, timer |-> 0,
                   rawbuf |-> Store(s.rawbuf, 0, t),
                   rawlen |-> 1, wrIx |-> 0]
        ELSE IF t > GAP_TICKS
             THEN [s EXCEPT !.timer = GAP_TICKS]
             ELSE [s EXCEPT !.timer = t]

\* case STATE_MARK: the MARK goes on, or it has ended and is recorded
MarkCase(s, irdata) ==
    LET t == (s.timer + 1) % U16
    IN  IF irdata = SPACE
        THEN [rcvstate |-> STATE_SPACE, timer |-> 0,
              rawbuf |-> Store(s.rawbuf, s.rawlen, t),
              rawlen |-> s.rawlen + 1, wrIx |-> s.rawlen]
        ELSE [s EXCEPT !.timer = t]

\* case STATE_SPACE: the SPACE has ended and is recorded, or it goes on; once
\* it is as long as a gap the recording is complete
SpaceCase(s, irdata) ==
    LET t == (s.timer + 1) % U16
    IN  IF irdata = MARK
        THEN [rcvstate |-> STATE_MARK, timer |-> 0,
              rawbuf |-> Store(s.rawbuf, s.rawlen, t),
              rawlen |-> s.rawlen + 1, wrIx |-> s.rawlen]
        ELSE IF t >= GAP_TICKS
             THEN [s EXCEPT !.rcvstate = STATE_STOP, !.timer = t]
             ELSE [s EXCEPT !.timer = t]

\* One run of the interrupt service routine on the ISR state s with the
\* sampled level irdata.
ISR(s, irdata) ==
    LET t == (s.timer + 1) % U16
        st == IF BufferFull(s.rawlen) THEN STATE_STOP ELSE s.rcvstate
    IN  CASE st = STATE_IDLE -> IdleCase(s, irdata)
          [] st = STATE_MARK -> MarkCase(s, irdata)
          [] st = STATE_SPACE -> SpaceCase(s, irdata)
          [] st = STATE_STOP -> StopCase(s, irdata)
          [] OTHER -> [s EXCEPT !.timer = t]


(***************************************************************************)
(* Protocol matchers.  A matcher takes the recording (buf, len) and the    *)
(* Decoded Code fields d = [decode_type, value, bits, panasonicAddress] as *)
(* they are when it is called, and yields [ok |-> what it returns,         *)
(* d |-> the fields as it leaves them].  d.unwritten names the fields that *)
(* nothing has assigned yet; an assignment takes the field out of it.      *)
(* "long data" is kept as its 32-bit pattern (avr-gcc shifts wrap).        *)
(***************************************************************************)
\* Up to n iterations of a loop with body Body from the loop state st; st.go
\* says that the loop has not been left (by its condition, a break or a
\* return).
\* A local of the code: In applied to the value v it holds.
With(v, In(_)) == In(v)

RECURSIVE Iterate(_, _, _)
Iterate(Body(_), st, n) ==
    IF n = 0 \/ ~st.go THEN st
    ELSE IF n = 1 THEN Body(st)
    ELSE Iterate(Body, Iterate(Body, st, n \div 2), n - (n \div 2))

\* Variant of Accept that adds the bits decoded to those counted before
AcceptAdds(d, type, val, nbits) ==
    [ok |-> TRUE,
     d |-> [d EXCEPT !.decode_type = type, !.value = val, !.bits = d.bits + nbits,
                     !.unwritten = @ \ {"decode_type", "value", "bits"}]]

Accept(d, type, val, nbits) ==
    [ok |-> TRUE,
     d |-> [d EXCEPT !.decode_type = type, !.value = val, !.bits = nbits,
                     !.unwritten = @ \ {"decode_type", "value", "bits"}]]

\* return false;
Reject(d) == [ok |-> FALSE, d |-> d]

\* One iteration of the loop over space-coded bits: a bit mark at
\* rawbuf[offset], then a one-space or a zero-space; data is shifted in MSB
\* first.  data is the low 32 bits of the accumulator and hi its bits 32 .. 47
\* (Panasonic's unsigned long long; the other matchers' long has no such bits).
\* ok = FALSE: the matcher returns false.
SpaceBit(buf, st, bitMark, oneSpace, zeroSpace) ==
    IF ~MATCH_MARK(buf[st.offset], bitMark)
    THEN [st EXCEPT !.go = FALSE, !.ok = FALSE]
    ELSE IF MATCH_SPACE(buf[st.offset + 1], oneSpace)
    THEN [st EXCEPT !.hi = (2 * st.hi + Bit31(st.data)) % U16,
                    !.data = Shl1(st.data, 1), !.offset = st.offset + 2]
    ELSE IF MATCH_SPACE(buf[st.offset + 1], zeroSpace)
    THEN [st EXCEPT !.hi = (2 * st.hi + Bit31(st.data)) % U16,
                    !.data = Shl1(st.data, 0), !.offset = st.offset + 2]
    ELSE [st EXCEPT !.go = FALSE, !.ok = FALSE, !.offset = st.offset + 1]

\* for (int i = 0; i < n; i++) { ... } from data = 0 at rawbuf[offset]
SpaceBits(buf, offset, n, bitMark, oneSpace, zeroSpace) ==
    Iterate(LAMBDA st : SpaceBit(buf, st, bitMark, oneSpace, zeroSpace),
            [go |-> TRUE, ok |-> TRUE, hi |-> 0, data |-> 0, offset |-> offset], n)

\* Variant of decodeNEC whose loop stops one bit short
decodeNECOneShort(buf, len, d) ==
    IF ~MATCH_MARK(buf[1], NEC_HDR_MARK) THEN Reject(d)
    ELSE IF /\ len = 4
            /\ MATCH_SPACE(buf[2], NEC_RPT_SPACE)
            /\ MATCH_MARK(buf[3], NEC_BIT_MARK)
    THEN Accept(d, NEC, REPEAT, 0)
    ELSE IF len < 2 * NEC_BITS + 4 THEN Reject(d)
    ELSE IF ~MATCH_SPACE(buf[2], NEC_HDR_SPACE) THEN Reject(d)
    ELSE LET r == SpaceBits(buf, 3, NEC_BITS - 1, NEC_BIT_MARK,
                            NEC_ONE_SPACE, NEC_ZERO_SPACE)
         IN  IF r.ok THEN Accept(d, NEC, r.data, NEC_BITS) ELSE Reject(d)

decodeNEC(buf, len, d) ==
    IF ~MATCH_MARK(buf[1], NEC_HDR_MARK) THEN Reject(d)
    ELSE IF /\ len = 4
            /\ MATCH_SPACE(buf[2], NEC_RPT_SPACE)
            /\ MATCH_MARK(buf[3], NEC_BIT_MARK)
    THEN Accept(d, NEC, REPEAT, 0)
    ELSE IF len < 2 * NEC_BITS + 4 THEN Reject(d)
    ELSE IF ~MATCH_SPACE(buf[2], NEC_HDR_SPACE) THEN Reject(d)
    ELSE LET r == SpaceBits(buf, 3, NEC_BITS, NEC_BIT_MARK,
                            NEC_ONE_SPACE, NEC_ZERO_SPACE)
         IN  IF r.ok THEN Accept(d, NEC, r.data, NEC_BITS) ELSE Reject(d)

\* One iteration of the while loop of decodeSony / decodeSanyo: while
\* offset + 1 < rawlen, a header space (else break), then a one mark or a
\* zero mark (else return false).
MarkBit(buf, len, st, hdrSpace, oneMark, zeroMark) ==
    IF ~(st.offset + 1 < len) THEN [st EXCEPT !.go = FALSE]
    ELSE IF ~MATCH_SPACE(buf[st.offset], hdrSpace) THEN [st EXCEPT !.go = FALSE]
    ELSE IF MATCH_MARK(buf[st.offset + 1], oneMark)
    THEN [st EXCEPT !.data = Shl1(st.data, 1), !.offset = st.offset + 2]
    ELSE IF MATCH_MARK(buf[st.offset + 1], zeroMark)
    THEN [st EXCEPT !.data = Shl1(st.data, 0), !.offset = st.offset + 2]
    ELSE [st EXCEPT !.go = FALSE, !.ok = FALSE, !.offset = st.offset + 1]

\* The whole loop, from data = 0 at rawbuf[offset]; it ends within RAWBUF
\* iterations, each of which advances offset by 2.
MarkBits(buf, len, offset, hdrSpace, oneMark, zeroMark) ==
    Iterate(LAMBDA st : MarkBit(buf, len, st, hdrSpace, oneMark, zeroMark),
            [go |-> TRUE, ok |-> TRUE, data |-> 0, offset |-> offset], RAWBUF)

decodeSony(buf, len, d) ==
    IF len < 2 * SONY_BITS + 2 THEN Reject(d)
    ELSE IF buf[0] < SONY_DOUBLE_SPACE_USECS THEN Accept(d, SANYO, REPEAT, 0)
    ELSE IF ~MATCH_MARK(buf[1], SONY_HDR_MARK) THEN Reject(d)
    ELSE LET r == MarkBits(buf, len, 2, SONY_HDR_SPACE, SONY_ONE_MARK, SONY_ZERO_MARK)
             nbits == (r.offset - 1) \div 2
         IN  IF ~r.ok THEN Reject(d)
             ELSE IF nbits < 12 THEN Reject([d EXCEPT !.bits = 0, !.unwritten = @ \ {"bits"}])
             ELSE Accept(d, SONY, r.data, nbits)

decodeSanyo(buf, len, d) ==
    IF len < 2 * SANYO_BITS + 2 THEN Reject(d)
    ELSE IF buf[0] < SANYO_DOUBLE_SPACE_USECS THEN Accept(d, SANYO, REPEAT, 0)
    ELSE IF ~MATCH_MARK(buf[1], SANYO_HDR_MARK) THEN Reject(d)
    ELSE IF ~MATCH_MARK(buf[2], SANYO_HDR_MARK) THEN Reject(d)
    ELSE LET r == MarkBits(buf, len, 3, SANYO_HDR_SPACE, SANYO_ONE_MARK, SANYO_ZERO_MARK)
             nbits == (r.offset - 1) \div 2
         IN  IF ~r.ok THEN Reject(d)
             ELSE IF nbits < 12 THEN Reject([d EXCEPT !.bits = 0, !.unwritten = @ \ {"bits"}])
             ELSE Accept(d, SANYO, r.data, nbits)

\* One iteration of the while loop of decodeMitsubishi: while
\* offset + 1 < rawlen, a one mark or a zero mark (else return false), then a
\* header space (else break).
MitsubishiBit(buf, len, st) ==
    IF ~(st.offset + 1 < len) THEN [st EXCEPT !.go = FALSE]
    ELSE LET one == MATCH_MARK(buf[st.offset], MITSUBISHI_ONE_MARK)
             zero == MATCH_MARK(buf[st.offset], MITSUBISHI_ZERO_MARK)
             data1 == IF one THEN Shl1(st.data, 1) ELSE Shl1(st.data, 0)
         IN  IF ~one /\ ~zero THEN [st EXCEPT !.go = FALSE, !.ok = FALSE]
             ELSE IF ~MATCH_SPACE(buf[st.offset + 1], MITSUBISHI_HDR_SPACE)
             THEN [st EXCEPT !.go = FALSE, !.data = data1, !.offset = st.offset + 1]
             ELSE [st EXCEPT !.data = data1, !.offset = st.offset + 2]

MitsubishiBits(buf, len, offset) ==
    Iterate(LAMBDA st : MitsubishiBit(buf, len, st),
            [go |-> TRUE, ok |-> TRUE, data |-> 0, offset |-> offset], RAWBUF)

decodeMitsubishi(buf, len, d) ==
    IF len < 2 * MITSUBISHI_BITS + 2 THEN Reject(d)
    ELSE IF ~MATCH_MARK(buf[1], MITSUBISHI_HDR_SPACE) THEN Reject(d)
    ELSE LET r == MitsubishiBits(buf, len, 2)
             nbits == (r.offset - 1) \div 2
         IN  IF ~r.ok THEN Reject(d)
             ELSE IF nbits < MITSUBISHI_BITS THEN Reject([d EXCEPT !.bits = 0, !.unwritten = @ \ {"bits"}])
             ELSE Accept(d, MITSUBISHI, r.data, nbits)

\* Variant of getRClevel that tries the multiples of t1 from the largest
getRClevelLargest(buf, len, offset, used, t1) ==
    IF offset >= len THEN [level |-> SPACE, offset |-> offset, used |-> used]
    ELSE LET width == buf[offset]
             val == IF offset % 2 = 1 THEN MARK ELSE SPACE
             correction == IF val = MARK THEN MARK_EXCESS ELSE -MARK_EXCESS
         IN  With(IF MATCH(width, 3 * t1 + correction) THEN 3
                  ELSE IF MATCH(width, 2 * t1 + correction) THEN 2
                  ELSE IF MATCH(width, t1 + correction) THEN 1
                  ELSE 0,
                  LAMBDA avail :
                      IF avail = 0
                      THEN [level |-> -1, offset |-> offset, used |-> used]
                      ELSE IF used + 1 >= avail
                      THEN [level |-> val, offset |-> offset + 1, used |-> 0]
                      ELSE [level |-> val, offset |-> offset, used |-> used + 1])

\* int getRClevel(int *offset, int *used, int t1): the level returned (-1:
\* error) and *offset, *used as the call leaves them.
getRClevel(buf, len, offset, used, t1) ==
    IF offset >= len THEN [level |-> SPACE, offset |-> offset, used |-> used]
    ELSE LET width == buf[offset]
             val == IF offset % 2 = 1 THEN MARK ELSE SPACE
             correction == IF val = MARK THEN MARK_EXCESS ELSE -MARK_EXCESS
         IN  With(IF MATCH(width, t1 + correction) THEN 1
                  ELSE IF MATCH(width, 2 * t1 + correction) THEN 2
                  ELSE IF MATCH(width, 3 * t1 + correction) THEN 3
                  ELSE 0,
                  LAMBDA avail :
                      IF avail = 0
                      THEN [level |-> -1, offset |-> offset, used |-> used]
                      ELSE IF used + 1 >= avail
                      THEN [level |-> val, offset |-> offset + 1, used |-> 0]
                      ELSE [level |-> val, offset |-> offset, used |-> used + 1])

\* One iteration of the for loop of decodeRC5: while offset < rawlen, two
\* levels make a bit (SPACE, MARK: 1; MARK, SPACE: 0; else return false).
RC5Bit(buf, len, st) ==
    IF ~(st.offset < len) THEN [st EXCEPT !.go = FALSE]
    ELSE With(getRClevel(buf, len, st.offset, st.used, RC5_T1), LAMBDA a :
         With(getRClevel(buf, len, a.offset, a.used, RC5_T1), LAMBDA b :
             IF a.level = SPACE /\ b.level = MARK
             THEN [st EXCEPT !.offset = b.offset, !.used = b.used,
                             !.nbits = st.nbits + 1, !.data = Shl1(st.data, 1)]
             ELSE IF a.level = MARK /\ b.level = SPACE
             THEN [st EXCEPT !.offset = b.offset, !.used = b.used,
                             !.nbits = st.nbits + 1, !.data = Shl1(st.data, 0)]
             ELSE [st EXCEPT !.go = FALSE, !.ok = FALSE]))

\* The whole loop; every iteration that goes on consumes two levels, and
\* the RAWBUF entries hold at most 3 * RAWBUF levels.
RC5Bits(buf, len, offset, used) ==
    Iterate(LAMBDA st : RC5Bit(buf, len, st),
            [go |-> TRUE, ok |-> TRUE, data |-> 0, nbits |-> 0,
             offset |-> offset, used |-> used], 2 * RAWBUF)

decodeRC5(buf, len, d) ==
    IF len < MIN_RC5_SAMPLES + 2 THEN Reject(d)
    ELSE With(getRClevel(buf, len, 1, 0, RC5_T1), LAMBDA s1 :
         With(getRClevel(buf, len, s1.offset, s1.used, RC5_T1), LAMBDA s2 :
         With(getRClevel(buf, len, s2.offset, s2.used, RC5_T1), LAMBDA s3 :
             IF s1.level # MARK THEN Reject(d)
             ELSE IF s2.level # SPACE THEN Reject(d)
             ELSE IF s3.level # MARK THEN Reject(d)
             ELSE With(RC5Bits(buf, len, s3.offset, s3.used), LAMBDA r :
                      IF r.ok THEN Accept(d, RC5, r.data, r.nbits)
                      ELSE Reject(d)))))

\* One iteration of the for loop of decodeRC6: like RC5 with the levels
\* reversed; bit 3 (the T bit) is double wide and each of its halves is read
\* twice.
RC6Bit(buf, len, st) ==
    IF ~(st.offset < len) THEN [st EXCEPT !.go = FALSE]
    ELSE With(getRClevel(buf, len, st.offset, st.used, RC6_T1), LAMBDA a :
         With(IF st.nbits = 3
              THEN getRClevel(buf, len, a.offset, a.used, RC6_T1) ELSE a, LAMBDA a2 :
         With(getRClevel(buf, len, a2.offset, a2.used, RC6_T1), LAMBDA b :
         With(IF st.nbits = 3
              THEN getRClevel(buf, len, b.offset, b.used, RC6_T1) ELSE b, LAMBDA b2 :
             IF st.nbits = 3 /\ a.level # a2.level
             THEN [st EXCEPT !.go = FALSE, !.ok = FALSE]
             ELSE IF st.nbits = 3 /\ b.level # b2.level
             THEN [st EXCEPT !.go = FALSE, !.ok = FALSE]
             ELSE IF a.level = MARK /\ b.level = SPACE
             THEN [st EXCEPT !.offset = b2.offset, !.used = b2.used,
                             !.nbits = st.nbits + 1, !.data = Shl1(st.data, 1)]
             ELSE IF a.level = SPACE /\ b.level = MARK
             THEN [st EXCEPT !.offset = b2.offset, !.used = b2.used,
                             !.nbits = st.nbits + 1, !.data = Shl1(st.data, 0)]
             ELSE [st EXCEPT !.go = FALSE, !.ok = FALSE]))))

RC6Bits(buf, len, offset, used) ==
    Iterate(LAMBDA st : RC6Bit(buf, len, st),
            [go |-> TRUE, ok |-> TRUE, data |-> 0, nbits |-> 0,
             offset |-> offset, used |-> used], 2 * RAWBUF)

decodeRC6(buf, len, d) ==
    IF len < MIN_RC6_SAMPLES THEN Reject(d)
    ELSE IF ~MATCH_MARK(buf[1], RC6_HDR_MARK) THEN Reject(d)
    ELSE IF ~MATCH_SPACE(buf[2], RC6_HDR_SPACE) THEN Reject(d)
    ELSE With(getRClevel(buf, len, 3, 0, RC6_T1), LAMBDA s1 :
         With(getRClevel(buf, len, s1.offset, s1.used, RC6_T1), LAMBDA s2 :
             IF s1.level # MARK THEN Reject(d)
             ELSE IF s2.level # SPACE THEN Reject(d)
             ELSE With(RC6Bits(buf, len, s2.offset, s2.used), LAMBDA r :
                      IF r.ok THEN Accept(d, RC6, r.data, r.nbits)
                      ELSE Reject(d))))

decodePanasonic(buf, len, d) ==
    IF ~MATCH_MARK(buf[1], PANASONIC_HDR_MARK) THEN Reject(d)
    ELSE IF ~MATCH_MARK(buf[2], PANASONIC_HDR_SPACE) THEN Reject(d)
    ELSE LET r == SpaceBits(buf, 3, PANASONIC_BITS, PANASONIC_BIT_MARK,
                            PANASONIC_ONE_SPACE, PANASONIC_ZERO_SPACE)
         IN  IF ~r.ok THEN Reject(d)
             ELSE [ok |-> TRUE,
                   d |-> [decode_type |-> PANASONIC, value |-> r.data,
                          bits |-> PANASONIC_BITS,
                          panasonicAddress |-> r.hi, unwritten |-> {}]]

decodeLG(buf, len, d) ==
    IF ~MATCH_MARK(buf[1], LG_HDR_MARK) THEN Reject(d)
    ELSE IF len < 2 * LG_BITS + 1 THEN Reject(d)
    ELSE IF ~MATCH_SPACE(buf[2], LG_HDR_SPACE) THEN Reject(d)
    ELSE LET r == SpaceBits(buf, 3, LG_BITS, LG_BIT_MARK,
                            LG_ONE_SPACE, LG_ZERO_SPACE)
         IN  IF ~r.ok THEN Reject(d)
             ELSE IF ~MATCH_MARK(buf[r.offset], LG_BIT_MARK) THEN Reject(d)
             ELSE Accept(d, LG, r.data, LG_BITS)

decodeJVC(buf, len, d) ==
    IF /\ len - 1 = 33
       /\ MATCH_MARK(buf[1], JVC_BIT_MARK)
       /\ MATCH_MARK(buf[len - 1], JVC_BIT_MARK)
    THEN Accept(d, JVC, REPEAT, 0)
    ELSE IF ~MATCH_MARK(buf[1], JVC_HDR_MARK) THEN Reject(d)
    ELSE IF len < 2 * JVC_BITS + 1 THEN Reject(d)
    ELSE IF ~MATCH_SPACE(buf[2], JVC_HDR_SPACE) THEN Reject(d)
    ELSE LET r == SpaceBits(buf, 3, JVC_BITS, JVC_BIT_MARK,
                            JVC_ONE_SPACE, JVC_ZERO_SPACE)
         IN  IF ~r.ok THEN Reject(d)
             ELSE IF ~MATCH_MARK(buf[r.offset], JVC_BIT_MARK) THEN Reject(d)
             ELSE Accept(d, JVC, r.data, JVC_BITS)

decodeSAMSUNG(buf, len, d) ==
    IF ~MATCH_MARK(buf[1], SAMSUNG_HDR_MARK) THEN Reject(d)
    ELSE IF /\ len = 4
            /\ MATCH_SPACE(buf[2], SAMSUNG_RPT_SPACE)
            /\ MATCH_MARK(buf[3], SAMSUNG_BIT_MARK)
    THEN Accept(d, SAMSUNG, REPEAT, 0)
    ELSE IF len < 2 * SAMSUNG_BITS + 4 THEN Reject(d)
    ELSE IF ~MATCH_SPACE(buf[2], SAMSUNG_HDR_SPACE) THEN Reject(d)
    ELSE LET r == SpaceBits(buf, 3, SAMSUNG_BITS, SAMSUNG_BIT_MARK,
                            SAMSUNG_ONE_SPACE, SAMSUNG_ZERO_SPACE)
         IN  IF r.ok THEN Accept(d, SAMSUNG, r.data, SAMSUNG_BITS) ELSE Reject(d)

(***************************************************************************)
(* Hash fallback                                                           *)
(***************************************************************************)
\* int compare(unsigned int oldval, unsigned int newval); x < y * .8 on
\* integers is 10 * x < 8 * y.
compare(oldval, newval) ==
    IF 10 * newval < 8 * oldval THEN 0
    ELSE IF 10 * oldval < 8 * newval THEN 2
    ELSE 1

\* #define FNV_PRIME_32 16777619 (0x01000193) and FNV_BASIS_32 2166136261
\* (0x811c9dc5), by their 16-bit halves
FNV_PRIME_HI == 256
FNV_PRIME_LO == 403
FNV_BASIS_HI == 33052
FNV_BASIS_LO == 40389
FNV_PRIME_32 == Word(FNV_PRIME_HI, FNV_PRIME_LO)
FNV_BASIS_32 == Word(FNV_BASIS_HI, FNV_BASIS_LO)

\* hash * FNV_PRIME_32 on 32 bits
MulPrime(hash) ==
    LET lo == Lo16(hash) * FNV_PRIME_LO
        hi == Hi16(hash) * FNV_PRIME_LO + Lo16(hash) * FNV_PRIME_HI + (lo \div U16)
    IN  Word(hi % U16, lo % U16)

\* a ^ b on naturals
RECURSIVE Xor(_, _)
Xor(a, b) ==
    IF b = 0 THEN a
    ELSE IF a = 0 THEN b
    ELSE 2 * Xor(a \div 2, b \div 2) + (((a % 2) + (b % 2)) % 2)

\* hash ^ value on 32 bits, value being 0, 1 or 2
XorValue(hash, v) == Word(Hi16(hash), Xor(Lo16(hash), v))

\* One iteration of the for loop of decodeHash: while i + 2 < rawlen,
\* hash = (hash * FNV_PRIME_32) ^ compare(rawbuf[i], rawbuf[i+2]).
HashStep(buf, len, st) ==
    IF ~(st.i + 2 < len) THEN [st EXCEPT !.go = FALSE]
    ELSE [st EXCEPT !.i = st.i + 1,
                    !.hash = XorValue(MulPrime(st.hash), compare(buf[st.i], buf[st.i + 2]))]

\* Variant of HashFold whose loop starts at the gap, rawbuf[0]
HashFoldFromGap(buf, len) ==
    Iterate(LAMBDA st : HashStep(buf, len, st),
            [go |-> TRUE, i |-> 0, hash |-> FNV_BASIS_32], RAWBUF).hash

\* The whole loop, for (int i = 1; i + 2 < rawlen; i++), from FNV_BASIS_32
HashFold(buf, len) ==
    Iterate(LAMBDA st : HashStep(buf, len, st),
            [go |-> TRUE, i |-> 1, hash |-> FNV_BASIS_32], RAWBUF).hash

decodeHash(buf, len, d) ==
    IF len < 6 THEN Reject(d)
    ELSE Accept(d, UNKNOWN, HashFold(buf, len), 32)

(***************************************************************************)
(* bool LRremote::decode(), called with rcvstate = STATE_STOP              *)
(***************************************************************************)
Matchers == <<"NEC", "Sony", "Sanyo", "Mitsubishi", "RC5", "RC6",
              "Panasonic", "LG", "JVC", "SAMSUNG", "Hash">>

RunMatcher(m, buf, len, d) ==
    CASE m = "NEC" -> decodeNEC(buf, len, d)
      [] m = "Sony" -> decodeSony(buf, len, d)
      [] m = "Sanyo" -> decodeSanyo(buf, len, d)
      [] m = "Mitsubishi" -> decodeMitsubishi(buf, len, d)
      [] m = "RC5" -> decodeRC5(buf, len, d)
      [] m = "RC6" -> decodeRC6(buf, len, d)
      [] m = "Panasonic" -> decodePanasonic(buf, len, d)
      [] m = "LG" -> decodeLG(buf, len, d)
      [] m = "JVC" -> decodeJVC(buf, len, d)
      [] m = "SAMSUNG" -> decodeSAMSUNG(buf, len, d)
      [] m = "Hash" -> decodeHash(buf, len, d)

\* The chain of decode() from its i-th matcher on: the first matcher that
\* accepts ends it; when none does, decode() calls resume() and returns false.
\* Variant of DecodeFrom in which the chain goes on after a matcher has
\* accepted, so that the last matcher that accepts decides the result
RECURSIVE DecodeFromAll(_, _, _, _)
DecodeFromAll(i, buf, len, d) ==
    IF i > Len(Matchers)
    THEN [ok |-> FALSE, d |-> d, by |-> "none", resumes |-> TRUE]
    ELSE With(RunMatcher(Matchers[i], buf, len, d), LAMBDA r :
         With(DecodeFromAll(i + 1, buf, len, r.d), LAMBDA rest :
             IF rest.ok \/ ~r.ok THEN rest
             ELSE [ok |-> TRUE, d |-> r.d, by |-> Matchers[i], resumes |-> FALSE]))

RECURSIVE DecodeFrom(_, _, _, _)
DecodeFrom(i, buf, len, d) ==
    IF i > Len(Matchers)
    THEN [ok |-> FALSE, d |-> d, by |-> "none", resumes |-> TRUE]
    ELSE With(RunMatcher(Matchers[i], buf, len, d), LAMBDA r :
             IF r.ok
             THEN [ok |-> TRUE, d |-> r.d, by |-> Matchers[i], resumes |-> FALSE]
             ELSE DecodeFrom(i + 1, buf, len, r.d))

\* Variant of decode that leaves the reset to its caller when no matcher
\* accepts
decodeNoResume(buf, len, d) == [DecodeFrom(1, buf, len, d) EXCEPT !.resumes = FALSE]

decode(buf, len, d) == DecodeFrom(1, buf, len, d)

\* Calls of decode() made on one recording before the foreground resets it
MaxAttempts == 3

\* What the call of decode() that yields r leaves to compare a later call on
\* the same recording with: nothing if it has reset the recording, else what
\* it returned, the number n of calls made on the recording so far and
\* whether the first of them came before any tick found the recording
\* stopped.  before is what the call before it left, now the ticks the
\* recording has waited.
Attempt(r, before, now) ==
    IF r.resumes THEN <<>>
    ELSE <<[ok |-> r.ok, decode_type |-> r.d.decode_type, value |-> r.d.value,
            bits |-> r.d.bits,
            n |-> IF before = <<>> THEN 1 ELSE before[1].n + 1,
            atOnce |-> IF before = <<>> THEN now = 0 ELSE before[1].atOnce]>>


(***************************************************************************)
(* bool LRremote::onButton(code, fButton, codeCount),                      *)
(* after decode() returned true.  The table tab is the sequence of the     *)
(* codeCount entries of code[]; code[keyIx] is tab[keyIx + 1].             *)
(***************************************************************************)
\* keyIx after "for (keyIx = 0; keyIx < codeCount; keyIx++) if (value ==
\* code[keyIx]) break": value is unsigned long, code[keyIx] is converted.
\* Variant of FindValue in which the last matching entry wins
FindValueLast(tab, v, keyIx) ==
    IF \E k \in (keyIx + 1)..Len(tab) : tab[k] = v
    THEN (CHOOSE k \in (keyIx + 1)..Len(tab) :
              tab[k] = v /\ \A j \in (k + 1)..Len(tab) : tab[j] # v) - 1
    ELSE Len(tab)

RECURSIVE FindValue(_, _, _)
FindValue(tab, v, keyIx) ==
    IF keyIx >= Len(tab) THEN keyIx
    ELSE IF v = tab[keyIx + 1] THEN keyIx
    ELSE FindValue(tab, v, keyIx + 1)

\* keyIx after "for (keyIx = 0; keyIx < codeCount; keyIx++) if (lastValue ==
\* code[keyIx]) break": both are long.
RECURSIVE FindLast(_, _, _)
FindLast(tab, lv, keyIx) ==
    IF keyIx >= Len(tab) THEN keyIx
    ELSE IF lv = tab[keyIx + 1] THEN keyIx
    ELSE FindLast(tab, lv, keyIx + 1)

\* Variant of Suppressed that ignores one REPEAT code more
SuppressedLate(rp) == rp <= REPEAT_PAUSE

\* if (++repeat < REPEAT_PAUSE) { resume(); return false; } for the repeat
\* count rp after the increment
Suppressed(rp) == rp < REPEAT_PAUSE

\* Variant of Outcome that says "processed" for every code received
OutcomeAlwaysTrue(keyIx, codeCount, lv, rp) ==
    [lastValue |-> lv, repeat |-> rp,
     invoked |-> IF keyIx < codeCount THEN <<keyIx>> ELSE <<>>, ret |-> TRUE]

\* if (keyIx < codeCount) { fButton[keyIx](); resume(); return true; } ...
\* resume(); return false; with lastValue lv and repeat rp as they are then
Outcome(keyIx, codeCount, lv, rp) ==
    IF keyIx < codeCount
    THEN [lastValue |-> lv, repeat |-> rp, invoked |-> <<keyIx>>, ret |-> TRUE]
    ELSE [lastValue |-> lv, repeat |-> rp, invoked |-> <<>>, ret |-> FALSE]

\* The body of "if (decode()) { ... }" for the decoded value v, with lastValue
\* lv and repeat rp: the new lastValue and repeat, the indices of fButton[]
\* invoked and the value returned.  Every path calls resume().
Dispatch(tab, v, lv, rp) ==
    LET codeCount == Len(tab)
        keyIx == FindValue(tab, v, 0)
        hit == keyIx < codeCount
        lv1 == IF hit THEN v ELSE lv
        rp1 == IF hit THEN 0 ELSE rp
        \* ++repeat on the 16-bit int: the overflow past 32767 wraps to -32768 in
        \* every build
        rp2 == ToInt((rp1 + 1) % U16)
    IN  IF keyIx >= codeCount /\ v = REPEAT
        THEN IF Suppressed(rp2)
             THEN [lastValue |-> lv1, repeat |-> rp2, invoked |-> <<>>, ret |-> FALSE]
             ELSE Outcome(FindLast(tab, lv1, 0), codeCount, lv1, rp2)
        ELSE Outcome(keyIx, codeCount, lv1, rp1)


(***************************************************************************)
(* The input of the receiver pin.  The remote sends frames; a frame is an  *)
(* idle gap followed by level runs that start with a MARK, each given by   *)
(* its length in ticks.  After the last frame the pin stays idle.          *)
(***************************************************************************)
\* Ticks the foreground lets a stopped recording wait before it polls
MaxWait == 2
\* Calls of the constructor LRremote::LRremote() the sketch makes in all
MaxBuilt == 2
\* Repeat frames a held button sends
MaxHeld == 3
\* Idle ticks before a first frame that the sampler accepts as a gap
FirstGap == GAP_TICKS - 1
\* Idle ticks between two frames: enough for the sampler to stop, for the
\* foreground to poll in time, and for the sampler to see a new gap; a frame
\* polled after MaxWait ticks comes one tick too soon after it.
NextGap == 2 * GAP_TICKS + MaxWait - 2

Ones(n) == [i \in 1..n |-> 1]

\* A MARK that lasts as many ticks as the number decodeSony compares
\* rawbuf[0] with, and then as many as the header mark of a Sony frame
LongMark == SONY_DOUBLE_SPACE_USECS + (SONY_HDR_MARK + MARK_EXCESS) \div USECPERTICK

Twos(n) == [i \in 1..n |-> 2]

Body(name) ==
    CASE name = "press" -> <<3, 1, 2, 1, 3>>        \* an unknown remote's button
      [] name = "other" -> <<1, 1, 3, 1, 1>>        \* another button of it
      [] name = "held" -> Ones(2 * SONY_BITS + 1)   \* a frame long enough for decodeSony
      [] name = "necrpt" -> <<180, 45, 12>>         \* the NEC repeat frame
      [] name = "blip" -> <<2>>                     \* a lone pulse
      [] name = "flood" -> Twos(RAWBUF + 9)         \* more runs than rawbuf holds
      [] name = "stuck" -> <<U16, 1, 2>>            \* a MARK of 65536 ticks (3.3 s) first
      [] name = "long" -> <<LongMark>> \o Ones(2 * SONY_BITS)   \* a long MARK first

\* The runs of a frame: its gap, then its body
Runs(f) == <<f.gap>> \o Body(f.body)

\* A signal: the frames named, the first after gap ticks of idle
Signal(gap, names) ==
    [i \in 1..Len(names) |->
        [gap |-> IF i = 1 THEN gap ELSE NextGap, body |-> names[i]]]

Held(n) == [i \in 1..n |-> "held"]

Signals ==
    { Signal(FirstGap, <<"press">> \o Held(MaxHeld)),
      Signal(FirstGap, <<"other">> \o Held(MaxHeld)),
      Signal(FirstGap, <<"necrpt", "press", "necrpt", "necrpt", "necrpt">>),
      Signal(FirstGap, <<"blip", "press", "other">>),
      Signal(FirstGap, <<"flood", "press">>),
      Signal(FirstGap, <<"press", "other">> \o Held(MaxHeld)),
      Signal(FirstGap - 1, <<"press", "blip">>) }

\* The code[] tables of the sketch
CodeTables ==
    { <<7, 1236334118, 1236334118>>,
      <<-39059118, REPEAT, 1236334118>>,
      <<0, -39059118>>,
      <<>> }

\* The level of the pin at the next tick
Level == IF signal = <<>> \/ pos % 2 = 1 THEN SPACE ELSE MARK

\* The input after that tick
Sampled ==
    IF signal = <<>> THEN <<signal, pos, run>>
    ELSE IF run + 1 < Runs(Head(signal))[pos] THEN <<signal, pos, run + 1>>
    ELSE IF pos < Len(Runs(Head(signal))) THEN <<signal, pos + 1, 0>>
    ELSE <<Tail(signal), 1, 0>>

\* The Decoded Code fields after LRremote::LRremote(), which assigns none
\* of them: each holds what the storage of the object held (0 in static
\* storage, anything in an automatic or a heap object), so all four are
\* unwritten and the zeros stand for any values
Constructed ==
    [decode_type |-> 0, value |-> 0, bits |-> 0, panasonicAddress |-> 0,
     unwritten |-> {"decode_type", "value", "bits", "panasonicAddress"}]

(***************************************************************************)
(* The system: a sketch that constructs its one LRremote, calls enable()   *)
(* and then polls with onButton().  Init is the state the constructor      *)
(* leaves.  rcvstate, rawlen and recvpin are file-scope, so a sketch that  *)
(* constructs an LRremote again later resets a recording under way: the    *)
(* actions Construct and ConstructRawlen of LaterSpec, further down.       *)
(***************************************************************************)
Init ==
    /\ rcvstate = STATE_IDLE
    /\ timer = 0
    /\ rawbuf = [i \in 0..(RAWBUF - 1) |-> 0]
    /\ rawlen = 0
    /\ wrIx = -1
    /\ decode_type = Constructed.decode_type
    /\ value = Constructed.value
    /\ bits = Constructed.bits
    /\ panasonicAddress = Constructed.panasonicAddress
    /\ unwritten = Constructed.unwritten
    /\ lastValue = 0
    /\ repeat = 0
    /\ code \in CodeTables
    /\ built = 1
    /\ pc = "idle"
    /\ caller = "none"
    /\ decodeRet = FALSE
    /\ matcher = "none"
    /\ ret = FALSE
    /\ invoked = <<>>
    /\ last = "init"
    /\ signal \in Signals
    /\ pos = 1
    /\ run = 0
    /\ wait = 0
    /\ chain = -1
    /\ accepted = 0
    /\ decoded = <<>>
    /\ cursor = NoWalk
    /\ recent = NoButton

\* The timer interrupt: one run of the ISR.  It preempts the foreground
\* anywhere, also between the two writes of resume().  What the last
\* onButton call returned is gone once the foreground has gone on.
Tick ==
    /\ rcvstate = STATE_STOP => wait < MaxWait
    /\ LET s == ISR([rcvstate |-> rcvstate, timer |-> timer, rawbuf |-> rawbuf,
                     rawlen |-> rawlen, wrIx |-> wrIx], Level)
       IN  /\ rcvstate' = s.rcvstate
           /\ timer' = s.timer
           /\ rawbuf' = s.rawbuf
           /\ rawlen' = s.rawlen
           /\ wrIx' = s.wrIx
    /\ signal' = Sampled[1]
    /\ pos' = Sampled[2]
    /\ run' = Sampled[3]
    /\ wait' = IF rcvstate = STATE_STOP THEN wait + 1 ELSE 0
    /\ IF pc = "idle"
       THEN /\ decodeRet' = FALSE
            /\ matcher' = "none"
            /\ ret' = FALSE
            /\ invoked' = <<>>
            /\ caller' = "none"
       ELSE UNCHANGED <<decodeRet, matcher, ret, invoked, caller>>
    /\ last' = "tick"
    /\ UNCHANGED <<decodedVars, lastValue, repeat, code, built, pc, chain, accepted, decoded, cursor,
                   recent>>

\* Variants of NotReady: one that takes a recording in progress for a
\* finished one, and one without the test
NotReadyIdleOnly(st) == st = STATE_IDLE

NotReadyNever(st) == FALSE

\* if (rcvstate != STATE_STOP) return false; at the head of decode()
NotReady(st) == st # STATE_STOP

\* onButton() called while no recording is ready: decode() returns false
\* and so does onButton().
OnButtonIdle ==
    /\ pc = "idle"
    /\ NotReady(rcvstate)
    /\ decodeRet' = FALSE
    /\ matcher' = "none"
    /\ ret' = FALSE
    /\ invoked' = <<>>
    /\ caller' = "none"
    /\ last' = "onButton"
    /\ UNCHANGED <<isrVars, decodedVars, lastValue, repeat, code, built, pc, envVars,
                   wait, chain, accepted, decoded, cursor,
                   recent>>

\* What onButton() has heard after decode() returned r: a frame that no
\* matcher accepts is none; REPEAT counts as a button of its own when the
\* caller's table holds it, which the tables of interest here do not
Heard(h, r) ==
    IF ~r.ok THEN h
    ELSE IF r.d.value = REPEAT THEN [h EXCEPT !.since = h.since + 1]
    ELSE [known |-> TRUE, value |-> r.d.value, since |-> 0]

\* onButton() called with a recording ready: decode() runs the matchers on
\* it; if one accepts, onButton() dispatches the value and calls resume(); if
\* none does, decode() calls resume().  The recording does not change while
\* rcvstate is STATE_STOP, so the step is taken up to the call of resume().
OnButtonReady ==
    /\ pc = "idle"
    /\ ~NotReady(rcvstate)
    /\ \E r \in {decode(rawbuf, rawlen,
                       [decode_type |-> decode_type, value |-> value, bits |-> bits,
                        panasonicAddress |-> panasonicAddress,
                        unwritten |-> unwritten])} :
       \E c \in {Dispatch(code, r.d.value, lastValue, repeat)} :
       LET mapped == \E k \in 1..Len(code) : code[k] = r.d.value
       IN  /\ decode_type' = r.d.decode_type
           /\ value' = r.d.value
           /\ bits' = r.d.bits
           /\ panasonicAddress' = r.d.panasonicAddress
           /\ unwritten' = r.d.unwritten
           /\ decodeRet' = r.ok
           /\ matcher' = r.by
           /\ IF r.ok
              THEN /\ lastValue' = c.lastValue
                   /\ repeat' = c.repeat
                   /\ invoked' = c.invoked
                   /\ ret' = c.ret
                   /\ caller' = "onButton"
                   /\ pc' = "resume_rawlen"
              ELSE /\ UNCHANGED <<lastValue, repeat>>
                   /\ invoked' = <<>>
                   /\ ret' = FALSE
                   /\ caller' = IF r.resumes THEN "decode" ELSE "none"
                   /\ pc' = IF r.resumes THEN "resume_rawlen" ELSE "idle"
           /\ IF r.ok /\ mapped
              THEN chain' = 0 /\ accepted' = r.d.value
              ELSE IF r.ok /\ r.d.value = REPEAT /\ chain >= 0
              THEN chain' = chain + 1 /\ accepted' = accepted
              ELSE chain' = -1 /\ accepted' = 0
           /\ decoded' = Attempt(r, decoded, wait)
           /\ recent' = Heard(recent, r)
           /\ UNCHANGED cursor
    /\ last' = "onButton"
    /\ UNCHANGED <<isrVars, code, built, envVars, wait>>

\* Variant of resume() that writes rcvstate first and rawlen second
ResumeStateFirst ==
    /\ pc = "resume_rawlen"
    /\ rcvstate' = STATE_IDLE
    /\ pc' = "resume_rcvstate"
    /\ wait' = 0
    /\ last' = "resume"
    /\ decoded' = <<>>
    /\ UNCHANGED <<cursor, recent>>
    /\ UNCHANGED <<timer, rawbuf, rawlen, wrIx, decodedVars, lastValue, repeat,
                   code, built, caller, decodeRet, matcher, ret, invoked, envVars,
                   chain, accepted>>

\* resume(): rawlen = 0;
ResumeRawlen ==
    /\ pc = "resume_rawlen"
    /\ rawlen' = 0
    /\ pc' = "resume_rcvstate"
    /\ last' = "resume"
    /\ decoded' = <<>>
    /\ UNCHANGED <<cursor, recent>>
    /\ UNCHANGED <<rcvstate, timer, rawbuf, wrIx, decodedVars, lastValue, repeat,
                   code, built, caller, decodeRet, matcher, ret, invoked, envVars, wait,
                   chain, accepted>>

\* Variant of ResumeRcvstate that returns without the write to rcvstate
ResumeRcvstateSkipped ==
    /\ pc = "resume_rcvstate"
    /\ pc' = "idle"
    /\ wait' = 0
    /\ last' = "return"
    /\ decoded' = <<>>
    /\ UNCHANGED <<cursor, recent>>
    /\ UNCHANGED <<rcvstate, timer, rawbuf, rawlen, wrIx, decodedVars, lastValue,
                   repeat, code, built, caller, decodeRet, matcher, ret, invoked, envVars,
                   chain, accepted>>

\* resume(): rcvstate = STATE_IDLE; then the call of onButton() returns
ResumeRcvstate ==
    /\ pc = "resume_rcvstate"
    /\ rcvstate' = STATE_IDLE
    /\ pc' = "idle"
    /\ wait' = 0
    /\ last' = "return"
    /\ decoded' = <<>>
    /\ UNCHANGED <<cursor, recent>>
    /\ UNCHANGED <<timer, rawbuf, rawlen, wrIx, decodedVars, lastValue, repeat,
                   code, built, caller, decodeRet, matcher, ret, invoked, envVars,
                   chain, accepted>>

Next == Tick \/ OnButtonIdle \/ OnButtonReady \/ ResumeRawlen \/ ResumeRcvstate

Spec == Init /\ [][Next]_vars

\* The program with a receiver whose output stays active for 65536 ticks
\* before the rest of a frame comes: the state after construction, with an
\* empty code table
StuckInit ==
    /\ rcvstate = STATE_IDLE
    /\ timer = 0
    /\ rawbuf = [i \in 0..(RAWBUF - 1) |-> 0]
    /\ rawlen = 0
    /\ wrIx = -1
    /\ decode_type = Constructed.decode_type
    /\ value = Constructed.value
    /\ bits = Constructed.bits
    /\ panasonicAddress = Constructed.panasonicAddress
    /\ unwritten = Constructed.unwritten
    /\ lastValue = 0
    /\ repeat = 0
    /\ code = <<>>
    /\ built = 1
    /\ pc = "idle"
    /\ caller = "none"
    /\ decodeRet = FALSE
    /\ matcher = "none"
    /\ ret = FALSE
    /\ invoked = <<>>
    /\ last = "init"
    /\ signal = Signal(FirstGap, <<"stuck">>)
    /\ pos = 1
    /\ run = 0
    /\ wait = 0
    /\ chain = -1
    /\ accepted = 0
    /\ decoded = <<>>
    /\ cursor = NoWalk
    /\ recent = NoButton

StuckSpec == StuckInit /\ [][Next]_vars

\* The program with a remote that sends one frame long enough for decodeSony
\* and decodeSanyo, after the pin was idle for more ticks than either of
\* the numbers these compare rawbuf[0] with
QuietInit ==
    /\ rcvstate = STATE_IDLE
    /\ timer = 0
    /\ rawbuf = [i \in 0..(RAWBUF - 1) |-> 0]
    /\ rawlen = 0
    /\ wrIx = -1
    /\ decode_type = Constructed.decode_type
    /\ value = Constructed.value
    /\ bits = Constructed.bits
    /\ panasonicAddress = Constructed.panasonicAddress
    /\ unwritten = Constructed.unwritten
    /\ lastValue = 0
    /\ repeat = 0
    /\ code = <<>>
    /\ built = 1
    /\ pc = "idle"
    /\ caller = "none"
    /\ decodeRet = FALSE
    /\ matcher = "none"
    /\ ret = FALSE
    /\ invoked = <<>>
    /\ last = "init"
    /\ signal = Signal(SONY_DOUBLE_SPACE_USECS + SANYO_DOUBLE_SPACE_USECS, <<"held">>)
    /\ pos = 1
    /\ run = 0
    /\ wait = 0
    /\ chain = -1
    /\ accepted = 0
    /\ decoded = <<>>
    /\ cursor = NoWalk
    /\ recent = NoButton

QuietSpec == QuietInit /\ [][Next]_vars

\* The timer that enable() sets up interrupts every 50 us: the ISR keeps
\* running as long as it can
LiveSpec == Spec /\ WF_vars(Tick)

\* The sketch calls onButton() from loop() again and again: a call under way
\* goes on to its return, and a recording does not wait for ever with no
\* call under way.  The last conjunct is weak fairness of OnButtonReady
\* written out: that action is enabled exactly when pc = "idle" and
\* rcvstate = STATE_STOP, and every step of it leaves pc = "idle".
PollSpec ==
    /\ Spec
    /\ WF_vars(ResumeRawlen)
    /\ WF_vars(ResumeRcvstate)
    /\ []<>~(pc = "idle" /\ rcvstate = STATE_STOP)

TypeOK ==
    /\ rcvstate \in {STATE_IDLE, STATE_MARK, STATE_SPACE, STATE_STOP}
    /\ timer \in 0..(U16 - 1)
    /\ rawlen \in 0..RAWBUF
    /\ pc \in {"idle", "decode", "resume_rawlen", "resume_rcvstate", "construct_rawlen"}
    /\ built \in 1..MaxBuilt
    /\ unwritten \subseteq {"decode_type", "value", "bits", "panasonicAddress"}

\* No field is used while it is unwritten: onButton() reads value, and only
\* after decode() returned true, and every matcher that returns true has
\* assigned decode_type, value and bits before; nothing reads
\* panasonicAddress.  So what the storage held decides no step.
ReadsWritten == [][decodeRet' => unwritten' \subseteq {"panasonicAddress"}]_vars


(***************************************************************************)
(* The matchers on their own.  A recording that the sampler has completed  *)
(* waits in rawbuf (rcvstate = STATE_STOP), the Decoded Code fields are as *)
(* the constructor or an earlier decode() of some recording left them.     *)
(* decode() is taken as a whole (DecodeCall) or matcher by matcher, in the *)
(* order of its chain and up to the first that accepts (DecodeStep).       *)
(***************************************************************************)
\* Ticks the sampler records for a mark / a space of us microseconds
MarkTicks(us) == (us + MARK_EXCESS) \div USECPERTICK

SpaceTicks(us) == (us - MARK_EXCESS) \div USECPERTICK

\* A payload of n bits: bit i is 1 exactly if 3 divides i
Payload(n) == [i \in 1..n |-> IF i % 3 = 0 THEN 1 ELSE 0]

\* The mark / space pairs of a space-coded payload
SpaceCoded(payload, bitMark, oneSpace, zeroSpace) ==
    [i \in 1..(2 * Len(payload)) |->
        IF i % 2 = 1 THEN MarkTicks(bitMark)
        ELSE IF payload[i \div 2] = 1 THEN SpaceTicks(oneSpace)
        ELSE SpaceTicks(zeroSpace)]

\* A space-coded frame: header mark, second header entry, payload, stop mark
SpaceCodedFrame(hdr1, hdr2, nbits, bitMark, oneSpace, zeroSpace) ==
    <<GAP_TICKS, MarkTicks(hdr1), hdr2>>
        \o SpaceCoded(Payload(nbits), bitMark, oneSpace, zeroSpace)
        \o <<MarkTicks(bitMark)>>

\* Mitsubishi as decodeMitsubishi reads it: entry 1 is the header, then
\* pairs of a one / zero mark and a header space
MitsubishiCoded(payload) ==
    [i \in 1..(2 * Len(payload)) |->
        IF i % 2 = 0 THEN SpaceTicks(MITSUBISHI_HDR_SPACE)
        ELSE IF payload[(i + 1) \div 2] = 1 THEN MarkTicks(MITSUBISHI_ONE_MARK)
        ELSE MarkTicks(MITSUBISHI_ZERO_MARK)]

\* RC5 / RC6 frames of bits that are all 1 (RC5) or all 1 with the double
\* wide bit 3 (RC6): runs of one T1, marks and spaces in turn
Alternate(n, a, b) == [i \in 1..n |-> IF i % 2 = 1 THEN a ELSE b]

\* A full NEC frame of the 32 bits of payload, most significant first, with
\* every duration nominal, at the low end or at the high end of what
\* MATCH() accepts for it and the sampler can record: a SPACE is recorded
\* only when it ends before the timer is GAP_TICKS at a tick that samples
\* SPACE, so no SPACE entry is above GAP_TICKS.  The entries of more follow.
NECFrame(payload, skew, more) ==
    LET Ticks(us) ==
            CASE skew = "low" -> TICKS_LOW(us)
              [] skew = "high" -> TICKS_HIGH(us)
              [] OTHER -> us \div USECPERTICK
        Space(us) == IF Ticks(us) > GAP_TICKS THEN GAP_TICKS ELSE Ticks(us)
    IN  <<GAP_TICKS, Ticks(NEC_HDR_MARK + MARK_EXCESS),
          Space(NEC_HDR_SPACE - MARK_EXCESS)>>
        \o [i \in 1..(2 * NEC_BITS) |->
              IF i % 2 = 1 THEN Ticks(NEC_BIT_MARK + MARK_EXCESS)
              ELSE IF payload[i \div 2] = 1 THEN Space(NEC_ONE_SPACE - MARK_EXCESS)
              ELSE Space(NEC_ZERO_SPACE - MARK_EXCESS)]
        \o <<Ticks(NEC_BIT_MARK + MARK_EXCESS)>> \o more

Recordings ==
    { <<GAP_TICKS>> \o Body("press"),
      <<GAP_TICKS + 1>> \o Body("press"),
      <<GAP_TICKS + 1>> \o Body("other"),
      <<GAP_TICKS>> \o Body("blip"),
      <<GAP_TICKS>> \o Body("necrpt"),
      <<GAP_TICKS>> \o Body("held"),
      SpaceCodedFrame(NEC_HDR_MARK, SpaceTicks(NEC_HDR_SPACE), NEC_BITS,
                      NEC_BIT_MARK, NEC_ONE_SPACE, NEC_ZERO_SPACE),
      SpaceCodedFrame(SAMSUNG_HDR_MARK, SpaceTicks(SAMSUNG_HDR_SPACE), SAMSUNG_BITS,
                      SAMSUNG_BIT_MARK, SAMSUNG_ONE_SPACE, SAMSUNG_ZERO_SPACE),
      SpaceCodedFrame(LG_HDR_MARK, SpaceTicks(LG_HDR_SPACE), LG_BITS,
                      LG_BIT_MARK, LG_ONE_SPACE, LG_ZERO_SPACE),
      SpaceCodedFrame(JVC_HDR_MARK, SpaceTicks(JVC_HDR_SPACE), JVC_BITS,
                      JVC_BIT_MARK, JVC_ONE_SPACE, JVC_ZERO_SPACE),
      SpaceCodedFrame(PANASONIC_HDR_MARK, MarkTicks(PANASONIC_HDR_SPACE),
                      PANASONIC_BITS, PANASONIC_BIT_MARK,
                      PANASONIC_ONE_SPACE, PANASONIC_ZERO_SPACE),
      <<GAP_TICKS, MarkTicks(MITSUBISHI_HDR_SPACE)>>
          \o MitsubishiCoded(Payload(MITSUBISHI_BITS)),
      <<GAP_TICKS, MarkTicks(MITSUBISHI_HDR_SPACE)>>
          \o MitsubishiCoded(Payload(3))
          \o <<MarkTicks(MITSUBISHI_ZERO_MARK)>>
          \o Ones(2 * MITSUBISHI_BITS - 7),
      <<GAP_TICKS>> \o Alternate(27, MarkTicks(RC5_T1), SpaceTicks(RC5_T1)),
      <<GAP_TICKS, MarkTicks(RC6_HDR_MARK), SpaceTicks(RC6_HDR_SPACE)>>
          \o Alternate(8, MarkTicks(RC6_T1), SpaceTicks(RC6_T1))
          \o <<MarkTicks(2 * RC6_T1), SpaceTicks(2 * RC6_T1)>>
          \o Alternate(9, MarkTicks(RC6_T1), SpaceTicks(RC6_T1)),
      <<GAP_TICKS, MarkTicks(SAMSUNG_HDR_MARK), SpaceTicks(SAMSUNG_RPT_SPACE),
        MarkTicks(SAMSUNG_BIT_MARK)>>,
      <<GAP_TICKS>> \o Alternate(33, MarkTicks(JVC_BIT_MARK), SpaceTicks(JVC_ZERO_SPACE)),
      NECFrame([i \in 1..NEC_BITS |-> 1], "nominal", <<>>),
      NECFrame([i \in 1..NEC_BITS |-> 0], "low", <<40, 12>>),
      NECFrame([i \in 1..NEC_BITS |-> IF i = 1 THEN 1 ELSE 0], "high", <<>>),
      NECFrame([i \in 1..NEC_BITS |-> i % 2], "low", <<>>),
      NECFrame([i \in 1..NEC_BITS |-> IF i \in {2, 3, 5, 7, 11, 13, 32} THEN 1 ELSE 0],
               "high", <<12, 33>>),
      <<GAP_TICKS, MarkTicks(PANASONIC_HDR_MARK), MarkTicks(PANASONIC_HDR_SPACE),
        MarkTicks(PANASONIC_BIT_MARK)>> }

\* rawbuf holding the recording rec: entries past its end as the
\* constructor left them
Recorded(rec) == [i \in 0..(RAWBUF - 1) |-> IF i < Len(rec) THEN rec[i + 1] ELSE 0]

\* Recordings made before the one that waits; <<>>: none
Earlier ==
    { <<>>,
      <<GAP_TICKS>> \o Body("press"),
      <<GAP_TICKS>> \o Body("held"),
      SpaceCodedFrame(NEC_HDR_MARK, SpaceTicks(NEC_HDR_SPACE), NEC_BITS,
                      NEC_BIT_MARK, NEC_ONE_SPACE, NEC_ZERO_SPACE),
      SpaceCodedFrame(PANASONIC_HDR_MARK, MarkTicks(PANASONIC_HDR_SPACE),
                      PANASONIC_BITS, PANASONIC_BIT_MARK,
                      PANASONIC_ONE_SPACE, PANASONIC_ZERO_SPACE) }

\* rawbuf holding the recording rec made after the recording old: resume()
\* resets rawlen only, so the entries past the end of rec are those of old
RecordedOver(rec, old) ==
    [i \in 0..(RAWBUF - 1) |->
        IF i < Len(rec) THEN rec[i + 1]
        ELSE IF i < Len(old) THEN old[i + 1]
        ELSE 0]

\* The recording rec waits.  Before it the sketch, with no button mapped,
\* constructed the receiver and polled the recording old (none when old is
\* <<>>): the Decoded Code fields and repeat are what that poll left, timer
\* what the tick that stopped the recording left (GAP_TICKS after a gap, 0
\* with the buffer full).
MatchInit ==
    /\ rcvstate = STATE_STOP
    /\ code = <<>>
    /\ built = 1
    /\ lastValue = 0
    /\ \E rec \in Recordings, old \in Earlier :
          /\ rawbuf = RecordedOver(rec, old)
          /\ rawlen = Len(rec)
          /\ wrIx = Len(rec) - 1
          /\ timer = IF Len(rec) >= RAWBUF THEN 0 ELSE GAP_TICKS
          /\ \E b \in {IF old = <<>> THEN [ok |-> FALSE, d |-> Constructed]
                        ELSE decode(Recorded(old), Len(old), Constructed)} :
                /\ decode_type = b.d.decode_type
                /\ value = b.d.value
                /\ bits = b.d.bits
                /\ panasonicAddress = b.d.panasonicAddress
                /\ unwritten = b.d.unwritten
                /\ repeat = IF b.ok THEN Dispatch(<<>>, b.d.value, 0, 0).repeat ELSE 0
    /\ pc = "idle"
    /\ caller = "none"
    /\ decodeRet = FALSE
    /\ matcher = "none"
    /\ ret = FALSE
    /\ invoked = <<>>
    /\ last = "init"
    /\ signal = Signal(1, <<"flood">>)
    /\ pos = 1
    /\ run = 0
    /\ wait = 0
    /\ chain = -1
    /\ accepted = 0
    /\ decoded = <<>>
    /\ cursor = NoWalk
    /\ recent = NoButton

Fields ==
    [decode_type |-> decode_type, value |-> value, bits |-> bits,
     panasonicAddress |-> panasonicAddress, unwritten |-> unwritten]

\* The matcher that decode() calls when the matcher m has returned false
\* ("none": when decode() has found rcvstate at STATE_STOP); Hash is the last
After(m) ==
    IF m = "none" THEN Matchers[1]
    ELSE Matchers[(CHOOSE i \in 1..(Len(Matchers) - 1) : Matchers[i] = m) + 1]

\* onButton() called with a recording ready, taken one matcher at a time:
\* decode() calls the next matcher of its chain.  When the matcher accepts,
\* decode() returns true and onButton() dispatches the value, up to its call
\* of resume(); when it rejects, decode() goes on to the next one, and after
\* the last one to its own call of resume().  The ISR can run between any
\* two of these steps.
DecodeStep ==
    /\ pc \in {"idle", "decode"}
    /\ pc = "idle" => ~NotReady(rcvstate)
    /\ \E m \in {IF pc = "idle" THEN After("none") ELSE After(matcher)} :
       \E r \in {RunMatcher(m, rawbuf, rawlen, Fields)} :
       \E c \in {Dispatch(code, r.d.value, lastValue, repeat)} :
       LET mapped == \E k \in 1..Len(code) : code[k] = r.d.value
           over == r.ok \/ m = Matchers[Len(Matchers)]
       IN  /\ decode_type' = r.d.decode_type
           /\ value' = r.d.value
           /\ bits' = r.d.bits
           /\ panasonicAddress' = r.d.panasonicAddress
           /\ unwritten' = r.d.unwritten
           /\ decodeRet' = r.ok
           /\ matcher' = m
           /\ IF r.ok
              THEN /\ lastValue' = c.lastValue
                   /\ repeat' = c.repeat
                   /\ invoked' = c.invoked
                   /\ ret' = c.ret
                   /\ caller' = "onButton"
              ELSE /\ UNCHANGED <<lastValue, repeat>>
                   /\ invoked' = <<>>
                   /\ ret' = FALSE
                   /\ caller' = IF over THEN "decode" ELSE "none"
           /\ pc' = IF over THEN "resume_rawlen" ELSE "decode"
           /\ IF r.ok /\ mapped
              THEN chain' = 0 /\ accepted' = r.d.value
              ELSE IF r.ok /\ r.d.value = REPEAT /\ chain >= 0
              THEN chain' = chain + 1 /\ accepted' = accepted
              ELSE IF over
              THEN chain' = -1 /\ accepted' = 0
              ELSE UNCHANGED <<chain, accepted>>
           /\ recent' = Heard(recent, r)
    /\ last' = "match"
    /\ UNCHANGED <<isrVars, code, built, envVars, wait, decoded, cursor>>

\* A call of decode() on the recording that waits, up to its return or,
\* when no matcher accepts, up to its call of resume(): the two writes of
\* resume() are steps of their own, and the ISR can run between them
DecodeCall ==
    /\ pc = "idle"
    /\ ~NotReady(rcvstate)
    /\ decoded # <<>> => decoded[1].n < MaxAttempts
    /\ \E r \in {decode(rawbuf, rawlen, Fields)} :
          /\ decode_type' = r.d.decode_type
          /\ value' = r.d.value
          /\ bits' = r.d.bits
          /\ panasonicAddress' = r.d.panasonicAddress
          /\ unwritten' = r.d.unwritten
          /\ decodeRet' = r.ok
          /\ matcher' = r.by
          /\ caller' = IF r.resumes THEN "decode" ELSE "none"
          /\ pc' = IF r.resumes THEN "resume_rawlen" ELSE "idle"
          /\ decoded' = Attempt(r, decoded, wait)
          /\ UNCHANGED <<cursor, recent>>
    /\ last' = "decode"
    /\ UNCHANGED <<isrVars, lastValue, repeat, code, built, ret, invoked,
                   envVars, wait, chain, accepted>>

MatchNext == DecodeStep \/ DecodeCall \/ Tick \/ ResumeRawlen \/ ResumeRcvstate

MatchSpec == MatchInit /\ [][MatchNext]_vars

(***************************************************************************)
(* A sketch that constructs an LRremote again after enable(), between two  *)
(* polls: a local or a heap object, or a second receiver object.  The      *)
(* constructor is public, and rcvstate and rawlen, which it writes, are    *)
(* file-scope: all objects share them with the ISR.  The object names the  *)
(* pin the first one named.                                                *)
(***************************************************************************)
\* LRremote::LRremote(rpin) up to rcvstate = STATE_IDLE: it tests nothing
\* and leaves timer and rawbuf as they are.  lastValue and repeat are those
\* of the object constructed; the sketch goes on polling either that object
\* (mine), whose Decoded Code fields nothing has written, or the one it
\* polled before.
Construct ==
    /\ pc = "idle"
    /\ built < MaxBuilt
    /\ built' = built + 1
    /\ rcvstate' = STATE_IDLE
    /\ \E mine \in BOOLEAN :
          IF mine
          THEN /\ lastValue' = 0
               /\ repeat' = 0
               /\ decode_type' = Constructed.decode_type
               /\ value' = Constructed.value
               /\ bits' = Constructed.bits
               /\ panasonicAddress' = Constructed.panasonicAddress
               /\ unwritten' = Constructed.unwritten
               /\ chain' = -1
               /\ accepted' = 0
               /\ recent' = NoButton
          ELSE UNCHANGED <<lastValue, repeat, decodedVars, chain, accepted, recent>>
    /\ pc' = "construct_rawlen"
    /\ caller' = "none"
    /\ decodeRet' = FALSE
    /\ matcher' = "none"
    /\ ret' = FALSE
    /\ invoked' = <<>>
    /\ wait' = 0
    /\ decoded' = <<>>
    /\ last' = "construct"
    /\ UNCHANGED <<timer, rawbuf, rawlen, wrIx, code, envVars, cursor>>

\* LRremote::LRremote(rpin): rawlen = 0; and the return
ConstructRawlen ==
    /\ pc = "construct_rawlen"
    /\ rawlen' = 0
    /\ pc' = "idle"
    /\ last' = "constructed"
    /\ UNCHANGED <<rcvstate, timer, rawbuf, wrIx, decodedVars, lastValue, repeat,
                   code, built, caller, decodeRet, matcher, ret, invoked, envVars,
                   wait, chain, accepted, decoded, cursor, recent>>

\* The state after the first construction; the remote sends a frame of an
\* unknown protocol and then one that begins with a long MARK
LaterInit ==
    /\ rcvstate = STATE_IDLE
    /\ timer = 0
    /\ rawbuf = [i \in 0..(RAWBUF - 1) |-> 0]
    /\ rawlen = 0
    /\ wrIx = -1
    /\ decode_type = Constructed.decode_type
    /\ value = Constructed.value
    /\ bits = Constructed.bits
    /\ panasonicAddress = Constructed.panasonicAddress
    /\ unwritten = Constructed.unwritten
    /\ lastValue = 0
    /\ repeat = 0
    /\ code = <<>>
    /\ built = 1
    /\ pc = "idle"
    /\ caller = "none"
    /\ decodeRet = FALSE
    /\ matcher = "none"
    /\ ret = FALSE
    /\ invoked = <<>>
    /\ last = "init"
    /\ signal = Signal(FirstGap, <<"press", "long">>)
    /\ pos = 1
    /\ run = 0
    /\ wait = 0
    /\ chain = -1
    /\ accepted = 0
    /\ decoded = <<>>
    /\ cursor = NoWalk
    /\ recent = NoButton

LaterNext == Next \/ DecodeStep \/ Construct \/ ConstructRawlen

LaterSpec == LaterInit /\ [][LaterNext]_vars

(***************************************************************************)
(* getRClevel called again and again on a recording that waits, as         *)
(* decodeRC5 and decodeRC6 do: from entry 1, with *used = 0 at first       *)
(***************************************************************************)
\* Calls of getRClevel in one walk
MaxCalls == 8
\* The entries walked: from below the shortest duration that matches t1
\* (RC6_T1, SPACE) to above the longest that matches 3 * t1 (RC5_T1, MARK)
LevelWidths == (TICKS_LOW(RC6_T1 - MARK_EXCESS) - 1)..(TICKS_HIGH(3 * RC5_T1 + MARK_EXCESS) + 1)

LevelInit ==
    /\ rcvstate = STATE_STOP
    /\ timer = 0
    /\ \E a \in LevelWidths, b \in LevelWidths, len \in {2, 4} :
          /\ rawbuf = Recorded(<<GAP_TICKS, a, b, TICKS_HIGH(RC5_T1 + MARK_EXCESS)>>)
          /\ rawlen = len
          /\ wrIx = len - 1
    /\ decode_type = Constructed.decode_type
    /\ value = Constructed.value
    /\ bits = Constructed.bits
    /\ panasonicAddress = Constructed.panasonicAddress
    /\ unwritten = Constructed.unwritten
    /\ lastValue = 0
    /\ repeat = 0
    /\ code = <<>>
    /\ built = 1
    /\ pc = "idle"
    /\ caller = "none"
    /\ decodeRet = FALSE
    /\ matcher = "none"
    /\ ret = FALSE
    /\ invoked = <<>>
    /\ last = "init"
    /\ signal = <<>>
    /\ pos = 1
    /\ run = 0
    /\ wait = 0
    /\ chain = -1
    /\ accepted = 0
    /\ decoded = <<>>
    /\ \E t1 \in {RC5_T1, RC6_T1} :
          cursor = [offset |-> 1, used |-> 0, t1 |-> t1, level |-> -2, n |-> 0,
                    calls |-> 0]
    /\ recent = NoButton

\* One call getRClevel(&offset, &used, t1)
LevelCall ==
    /\ ~NotReady(rcvstate)
    /\ cursor.calls < MaxCalls
    /\ \E r \in {getRClevel(rawbuf, rawlen, cursor.offset, cursor.used, cursor.t1)} :
          cursor' = [offset |-> r.offset, used |-> r.used, t1 |-> cursor.t1,
                     level |-> r.level,
                     n |-> IF r.offset = cursor.offset THEN cursor.n + 1 ELSE 0,
                     calls |-> cursor.calls + 1]
    /\ last' = "level"
    /\ UNCHANGED <<isrVars, decodedVars, lastValue, repeat, code, built, pc, caller,
                   decodeRet, matcher, ret, invoked, envVars, wait, chain,
                   accepted, decoded, recent>>

LevelNext == LevelCall

LevelSpec == LevelInit /\ [][LevelNext]_vars


(***************************************************************************)
(* Properties of the controller: onButton()                                *)
(***************************************************************************)
\* The poll taken last found a recording ready (rcvstate was STATE_STOP)
ReadyPoll == last' = "onButton" /\ rcvstate = STATE_STOP

\* fButton[k] and nothing else was invoked, k the first index with code[k] = v
\* (code is 1-based here, fButton[] 0-based as in the source)
FirstMapped(tab, v, inv) ==
    \E k \in 1..Len(tab) :
        /\ tab[k] = v
        /\ \A j \in 1..(k - 1) : tab[j] # v
        /\ inv = <<k - 1>>

Mapped(tab, v) == \E k \in 1..Len(tab) : tab[k] = v

\* C1: after a poll that accepted a mapped value v, each of the next
\* REPEAT_PAUSE - 1 polls in a row whose frame decodes to REPEAT (REPEAT not
\* in the code table) invokes nothing and returns false, and the
\* REPEAT_PAUSE-th invokes the action of v, once, and returns true.
\* chain counts these polls and accepted is v.
C1_Debounce ==
    [][(ReadyPoll /\ chain' >= 1 /\ chain' <= REPEAT_PAUSE) =>
          IF chain' < REPEAT_PAUSE
          THEN invoked' = <<>> /\ ret' = FALSE
          ELSE FirstMapped(code, accepted', invoked') /\ ret' = TRUE]_vars

C1_Witness ==
    /\ last = "onButton"
    /\ chain = REPEAT_PAUSE
    /\ value = REPEAT
    /\ ~Mapped(code, REPEAT)
    /\ Len(invoked) = 1
    /\ ret

\* C2: a poll whose Ready frame decodes to a value in the code table, k the
\* first index holding it, sets repeat to 0 and lastValue to the value,
\* invokes fButton[k] and nothing else and returns true; when it returns,
\* rcvstate is STATE_IDLE and rawlen is 0.
C2_MappedValue ==
    /\ [][(ReadyPoll /\ decodeRet' /\ Mapped(code, value')) =>
            /\ repeat' = 0
            /\ lastValue' = value'
            /\ FirstMapped(code, value', invoked')
            /\ ret' = TRUE
            /\ chain' = 0]_vars
    /\ [][(last' = "return" /\ chain = 0) =>
            /\ rcvstate' = STATE_IDLE
            /\ rawlen' = 0
            /\ ret' = TRUE
            /\ FirstMapped(code, value', invoked')]_vars

C2_Witness ==
    /\ last = "return"
    /\ chain = 0
    /\ Len(code) = 3 /\ code[2] = value /\ code[3] = value
    /\ invoked = <<1>>
    /\ lastValue = value /\ repeat = 0
    /\ rcvstate = STATE_IDLE /\ rawlen = 0
    /\ ret

\* C3: a call of onButton invokes at most one action, and it returns true
\* exactly if it invoked one; a decoded value that is neither in the code
\* table nor REPEAT invokes none and the call returns false.
C3_AtMostOne ==
    /\ [](Len(invoked) <= 1 /\ (ret <=> Len(invoked) = 1))
    /\ [][(ReadyPoll /\ decodeRet' /\ ~Mapped(code, value') /\ value' # REPEAT) =>
            invoked' = <<>> /\ ret' = FALSE]_vars

C3_Witness ==
    /\ last = "onButton"
    /\ decodeRet
    /\ code # <<>>
    /\ ~Mapped(code, value)
    /\ value # REPEAT
    /\ invoked = <<>>
    /\ ~ret

\* C4: onButton called while rcvstate is not STATE_STOP returns false, invokes
\* nothing, leaves rcvstate, timer, rawbuf, rawlen, lastValue and repeat
\* unchanged and starts no reset.
C4_NotReady ==
    [][(last' = "onButton" /\ rcvstate # STATE_STOP) =>
          /\ ret' = FALSE
          /\ invoked' = <<>>
          /\ pc' = "idle"
          /\ UNCHANGED <<rcvstate, timer, rawbuf, rawlen, lastValue, repeat>>]_vars

C4_Witness ==
    /\ last = "onButton"
    /\ rcvstate \in {STATE_MARK, STATE_SPACE}
    /\ rawlen >= 2
    /\ lastValue # 0
    /\ ~ret


(***************************************************************************)
(* Properties of the sampler and of its handshake with the foreground      *)
(***************************************************************************)
\* C5: rawlen never exceeds RAWBUF and the sampler writes rawbuf only at
\* indices below RAWBUF; with rawlen = RAWBUF the next tick sets rcvstate to
\* STATE_STOP and writes no entry.
C5_BufferBound ==
    /\ [](rawlen <= RAWBUF /\ wrIx < RAWBUF)
    /\ [][(last' = "tick" /\ rawlen = RAWBUF) =>
            /\ rcvstate' = STATE_STOP
            /\ UNCHANGED <<rawbuf, rawlen, wrIx>>]_vars

C5_Witness ==
    /\ last = "tick"
    /\ rawlen = RAWBUF
    /\ wrIx = RAWBUF - 1
    /\ rcvstate = STATE_STOP
    /\ signal # <<>> /\ pos < Len(Runs(Head(signal)))

\* C6: a tick taken with rcvstate = STATE_STOP, whatever the level of the
\* pin, leaves rcvstate, rawbuf and rawlen as they are; rcvstate leaves
\* STATE_STOP only by the second write of resume().
C6_ReadyIsStable ==
    /\ [][(last' = "tick" /\ rcvstate = STATE_STOP) =>
            rcvstate' = STATE_STOP /\ UNCHANGED <<rawbuf, rawlen>>]_vars
    /\ [][(rcvstate = STATE_STOP /\ rcvstate' # STATE_STOP) =>
            pc = "resume_rcvstate" /\ last' = "return"]_vars

\* C7: both writes of resume() (rawlen = 0, rcvstate = STATE_IDLE) are made
\* with rcvstate = STATE_STOP: no step of the foreground changes rcvstate or
\* rawlen of a recording that is idle or in progress.
C7_ResetOnlyWhenReady ==
    /\ [][last' \in {"resume", "return"} => rcvstate = STATE_STOP]_vars
    /\ [][(last' # "tick" /\ rcvstate # STATE_STOP) =>
            UNCHANGED <<rcvstate, rawlen>>]_vars

C7_Witness ==
    /\ last = "return"
    /\ rcvstate = STATE_IDLE
    /\ rawlen = 0
    /\ caller = "onButton"
    /\ decodeRet /\ ~ret

\* C8 as claimed: no tick runs between the two writes of resume().
C8_Original == [][pc = "resume_rcvstate" => last' # "tick"]_vars

\* C8 as amended: resume() does not mask the interrupt and a tick may run
\* between its two writes; that tick finds rawlen = 0 with rcvstate =
\* STATE_STOP, sets timer to 0 and changes neither rcvstate, rawlen nor
\* rawbuf, and the second write then sets rcvstate to STATE_IDLE.
C8_TickInsideReset ==
    /\ [][(pc = "resume_rcvstate" /\ last' = "tick") =>
            /\ rcvstate = STATE_STOP /\ rawlen = 0
            /\ rcvstate' = STATE_STOP /\ rawlen' = 0
            /\ timer' = 0
            /\ UNCHANGED <<rawbuf, pc>>]_vars
    /\ [][pc = "resume_rcvstate" /\ last' = "return" =>
            rcvstate' = STATE_IDLE /\ rawlen' = 0]_vars

C8_Witness ==
    /\ pc = "resume_rcvstate"
    /\ last = "tick"
    /\ rcvstate = STATE_STOP
    /\ rawlen = 0
    /\ timer = 0

\* C9 as claimed: no step of a call of decode() writes rcvstate or rawlen.
C9_Original ==
    [][(last' # "tick" /\ caller' = "decode") => UNCHANGED <<rcvstate, rawlen>>]_vars

\* C9 as amended: decode() leaves rcvstate, rawbuf and rawlen unchanged when
\* a matcher accepts the frame (the reset is then onButton's); when every
\* matcher including decodeHash rejects it, decode() itself calls resume(),
\* and rcvstate is STATE_IDLE and rawlen 0 when it returns false.
C9_DecodeResetsOnFailure ==
    /\ [][ReadyPoll =>
            /\ UNCHANGED <<rcvstate, rawbuf, rawlen>>
            /\ decodeRet' => caller' = "onButton"
            /\ ~decodeRet' => caller' = "decode" /\ pc' = "resume_rawlen"]_vars
    /\ [][(last' = "return" /\ caller = "decode") =>
            /\ ~decodeRet' /\ ~ret'
            /\ rcvstate' = STATE_IDLE /\ rawlen' = 0]_vars

C9_Witness ==
    /\ last = "return"
    /\ caller = "decode"
    /\ matcher = "none"
    /\ ~decodeRet
    /\ rcvstate = STATE_IDLE
    /\ rawlen = 0


(***************************************************************************)
(* Properties of the matchers                                              *)
(***************************************************************************)
\* C10: a matcher that returns false leaves decode_type, value, bits,
\* panasonicAddress, rawbuf and rawlen as they were when it was called.
C10_Original ==
    [][(last' = "match" /\ ~decodeRet') =>
          UNCHANGED <<decode_type, value, bits, panasonicAddress, rawbuf, rawlen>>]_vars

\* The frame (buf, len) has the shape that matcher m takes for a repeat
RepeatShape(m, buf, len) ==
    CASE m = "NEC" ->
           /\ MATCH_MARK(buf[1], NEC_HDR_MARK)
           /\ len = 4
           /\ MATCH_SPACE(buf[2], NEC_RPT_SPACE)
           /\ MATCH_MARK(buf[3], NEC_BIT_MARK)
      [] m = "Sony" -> len >= 2 * SONY_BITS + 2 /\ buf[0] < SONY_DOUBLE_SPACE_USECS
      [] m = "Sanyo" -> len >= 2 * SANYO_BITS + 2 /\ buf[0] < SANYO_DOUBLE_SPACE_USECS
      [] m = "JVC" ->
           /\ len - 1 = 33
           /\ MATCH_MARK(buf[1], JVC_BIT_MARK)
           /\ MATCH_MARK(buf[len - 1], JVC_BIT_MARK)
      [] m = "SAMSUNG" ->
           /\ MATCH_MARK(buf[1], SAMSUNG_HDR_MARK)
           /\ len = 4
           /\ MATCH_SPACE(buf[2], SAMSUNG_RPT_SPACE)
           /\ MATCH_MARK(buf[3], SAMSUNG_BIT_MARK)
      [] OTHER -> FALSE

\* The decode_type of the protocol that matcher m decodes
ProtocolOf(m) ==
    CASE m = "NEC" -> NEC
      [] m = "Sony" -> SONY
      [] m = "Sanyo" -> SANYO
      [] m = "JVC" -> JVC
      [] m = "SAMSUNG" -> SAMSUNG
      [] OTHER -> UNKNOWN

\* C11: a matcher called on a frame of its repeat shape returns true with
\* value = REPEAT, bits = 0 and the decode_type of its own protocol (so a
\* 4-entry NEC repeat gives NEC, REPEAT, 0 whatever rawbuf holds from index 4
\* on).  decodeSony gives decode_type SANYO.
C11_RepeatResult ==
    [][(last' = "match" /\ RepeatShape(matcher', rawbuf, rawlen)) =>
          /\ decodeRet'
          /\ value' = REPEAT
          /\ bits' = 0
          /\ decode_type' = ProtocolOf(matcher')]_vars

\* The order in which decode() is to try the matchers
C12_Order == <<"NEC", "Sony", "Sanyo", "Mitsubishi", "RC5", "RC6",
               "Panasonic", "LG", "JVC", "SAMSUNG", "Hash">>

\* Position in C12_Order of the first matcher that accepts (buf, len); 0 if
\* none does
FirstAccepting(buf, len, d) ==
    With({i \in 1..Len(C12_Order) : RunMatcher(C12_Order[i], buf, len, d).ok},
         LAMBDA S : IF S = {} THEN 0 ELSE CHOOSE i \in S : \A j \in S : i <= j)

\* C12: decode() returns true exactly if some matcher accepts the
\* recording, and then with the Decoded Code as the first matcher in the order
\* NEC, Sony, Sanyo, Mitsubishi, RC5, RC6, Panasonic, LG, JVC, SAMSUNG, hash
\* that accepts it leaves it: no later matcher changes it, and decodeHash
\* decides only when the ten before it all reject.
C12_FirstAccepts ==
    [][last' = "decode" =>
          \E k \in {FirstAccepting(rawbuf, rawlen, Fields)} :
             IF k = 0
             THEN ~decodeRet' /\ matcher' = "none"
             ELSE \E r \in {RunMatcher(C12_Order[k], rawbuf, rawlen, Fields)} :
                     /\ decodeRet'
                     /\ matcher' = C12_Order[k]
                     /\ decode_type' = r.d.decode_type
                     /\ value' = r.d.value
                     /\ bits' = r.d.bits
                     /\ panasonicAddress' = r.d.panasonicAddress]_vars

\* decode() has returned what decodeNEC made of a full NEC frame, which
\* decodeSony and decodeHash accept as well
C12_Witness ==
    /\ last = "decode"
    /\ matcher = "NEC"
    /\ decodeRet
    /\ decode_type = NEC
    /\ bits = NEC_BITS
    /\ rcvstate = STATE_STOP
    /\ decodeSony(rawbuf, rawlen, Fields).ok
    /\ decodeHash(rawbuf, rawlen, Fields).ok

\* C13: a call of decode() on a recording that an earlier call has decoded
\* and that has not been reset since (rcvstate has been STATE_STOP all the
\* time) returns what that call returned, with the same decode_type, value
\* and bits, however many ticks the sampler has taken in between.
C13_Idempotent ==
    [][(last' = "decode" /\ decoded # <<>>) =>
          /\ decodeRet' = decoded[1].ok
          /\ decode_type' = decoded[1].decode_type
          /\ value' = decoded[1].value
          /\ bits' = decoded[1].bits
          /\ rcvstate' = STATE_STOP]_vars

\* The second call on a recording, MaxWait ticks after the first: bits is
\* again what the first call left
C13_Witness ==
    /\ last = "decode"
    /\ decoded # <<>>
    /\ decoded[1].n = 2
    /\ decoded[1].atOnce
    /\ wait = MaxWait
    /\ decodeRet
    /\ decode_type = UNKNOWN
    /\ bits = 32

\* Bit i (1: most significant) of a frame in the canonical NEC shape: 1 for
\* a space that matches NEC_ONE_SPACE, 0 for one that matches NEC_ZERO_SPACE,
\* -1 for any other; each bit has a mark that matches NEC_BIT_MARK first
NECBitAt(buf, i) ==
    IF ~MATCH_MARK(buf[2 * i + 1], NEC_BIT_MARK) THEN -1
    ELSE IF /\ MATCH_SPACE(buf[2 * i + 2], NEC_ONE_SPACE)
            /\ ~MATCH_SPACE(buf[2 * i + 2], NEC_ZERO_SPACE) THEN 1
    ELSE IF /\ MATCH_SPACE(buf[2 * i + 2], NEC_ZERO_SPACE)
            /\ ~MATCH_SPACE(buf[2 * i + 2], NEC_ONE_SPACE) THEN 0
    ELSE -1

\* (buf, len) is in the canonical NEC shape
NECShape(buf, len) ==
    /\ len >= 2 * NEC_BITS + 4
    /\ MATCH_MARK(buf[1], NEC_HDR_MARK)
    /\ MATCH_SPACE(buf[2], NEC_HDR_SPACE)
    /\ \A i \in 1..NEC_BITS : NECBitAt(buf, i) # -1

\* The 32-bit pattern of its bits: bit i weighs 2^(32 - i), the most
\* significant one is the sign of the long that has the pattern
RECURSIVE NECWeight(_, _, _)
NECWeight(buf, i, w) ==
    IF i = 1 THEN 0
    ELSE NECBitAt(buf, i) * w + NECWeight(buf, i - 1, 2 * w)

NECPattern(buf) ==
    IF NECBitAt(buf, 1) = 1 THEN MinLong + NECWeight(buf, NEC_BITS, 1)
    ELSE NECWeight(buf, NEC_BITS, 1)

\* C14: decode() of a recording in the canonical NEC shape (header mark,
\* header space, 32 bits each a bit mark and a one space or a zero space,
\* rawlen >= 68) returns true with decode_type = NEC, bits = 32 and value
\* the pattern of the 32 bits, most significant first.
C14_CanonicalNEC ==
    [][(last' = "decode" /\ NECShape(rawbuf, rawlen)) =>
          /\ decodeRet'
          /\ decode_type' = NEC
          /\ bits' = NEC_BITS
          /\ value' = NECPattern(rawbuf)]_vars

\* The frame of the bits 0110 1010 0010 1000 0000 0000 0000 0001, with
\* durations at the high end and two more entries recorded after it
C14_Witness ==
    /\ last = "decode"
    /\ rawlen = 2 * NEC_BITS + 6
    /\ NECShape(rawbuf, rawlen)
    /\ decodeRet
    /\ decode_type = NEC
    /\ value = 1781006337

\* c_i: entry i + 2 (new) compared with entry i (old)
C15_Class(buf, i) ==
    IF 10 * buf[i + 2] < 8 * buf[i] THEN 0
    ELSE IF 10 * buf[i] < 8 * buf[i + 2] THEN 2
    ELSE 1

\* (h * 16777619) XOR c modulo 2^32, h given by its halves <<high 16 bits,
\* low 16 bits>>: 16777619 = 2^24 + 403, and c in 0 .. 2 changes the two
\* lowest bits only
C15_Step(h, c) ==
    LET low == h[2] * 403
        high == h[1] * 403 + (low \div 65536) + (h[2] % 256) * 256
        lo == low % 65536
        two == lo % 4
        mixed == CASE c = 0 -> two
                   [] c = 1 -> IF two % 2 = 0 THEN two + 1 ELSE two - 1
                   [] c = 2 -> IF two < 2 THEN two + 2 ELSE two - 2
    IN  <<high % 65536, lo - two + mixed>>

\* The fold over i = a .. b in increasing order, from h (by halves of the
\* range; h is never <<>>, the comparison makes TLC evaluate it at once)
RECURSIVE C15_Fold(_, _, _, _)
C15_Fold(buf, a, b, h) ==
    IF a > b \/ h = <<>> THEN h
    ELSE IF a = b THEN C15_Step(h, C15_Class(buf, a))
    ELSE C15_Fold(buf, (a + b) \div 2 + 1, b, C15_Fold(buf, a, (a + b) \div 2, h))

\* The long that has the 32 bits of the fold over i = 1 .. len - 3 from
\* 2166136261 = 33052 * 65536 + 40389
C15_Hash(buf, len) ==
    With(C15_Fold(buf, 1, len - 3, <<33052, 40389>>), LAMBDA h :
         IF h[1] >= 32768 THEN (h[1] - 65536) * 65536 + h[2] ELSE h[1] * 65536 + h[2])

\* C15: when none of the ten protocol matchers accepts the recording,
\* decode() returns false if rawlen < 6, and else true with decode_type =
\* UNKNOWN, bits = 32 and value the FNV-1 fold of the classes c_i, i = 1 ..
\* rawlen - 3; rawbuf[0] does not enter it.  decodeHash called on any
\* recording gives the same.
C15_HashFallback ==
    /\ [][(last' = "decode"
            /\ \A k \in 1..10 : ~RunMatcher(Matchers[k], rawbuf, rawlen, Fields).ok) =>
              IF rawlen < 6 THEN ~decodeRet'
              ELSE /\ decodeRet'
                   /\ decode_type' = UNKNOWN
                   /\ bits' = 32
                   /\ value' = C15_Hash(rawbuf, rawlen)]_vars
    /\ [][(last' = "match" /\ matcher' = "Hash") =>
              IF rawlen < 6 THEN ~decodeRet'
              ELSE /\ decodeRet'
                   /\ decode_type' = UNKNOWN
                   /\ bits' = 32
                   /\ value' = C15_Hash(rawbuf, rawlen)]_vars

\* decode() has hashed the 6 entries of "press" recorded after a gap of
\* GAP_TICKS + 1 ticks, to the value it has after a gap of GAP_TICKS
C15_Witness ==
    /\ last = "decode"
    /\ matcher = "Hash"
    /\ rawlen = 6
    /\ rawbuf[0] = GAP_TICKS + 1
    /\ decodeRet
    /\ decode_type = UNKNOWN
    /\ bits = 32
    /\ value = decodeHash(Recorded(<<GAP_TICKS>> \o Body("press")), 6, Fields).d.value
    /\ value = 1236334118

\* The remote sends a frame of more level runs than rawbuf holds, none as
\* long as the gap, and the sampler has begun to record it
Overflowing ==
    /\ signal # <<>>
    /\ Head(signal).body = "flood"
    /\ rcvstate \in {STATE_MARK, STATE_SPACE}

C17_NoiseRejected ==
    /\ [][(last' = "tick" /\ rcvstate = STATE_IDLE /\ Level = MARK
            /\ timer + 1 < GAP_TICKS) =>
              /\ rcvstate' = STATE_IDLE
              /\ timer' = 0
              /\ UNCHANGED <<rawbuf, rawlen, wrIx>>]_vars
    /\ [](rcvstate = STATE_STOP => rawbuf[0] >= GAP_TICKS)

\* C18: rawlen is odd while rcvstate is STATE_MARK, and even and at least 2
\* while it is STATE_SPACE; every entry the sampler records at an index >= 1
\* is the number of ticks in a row sampled at one level, MARK for an odd
\* index and SPACE for an even one, and is at least 1.  (The run recorded is
\* the one before the run that begins with this tick; the last run of a
\* frame is no longer at hand when it is recorded.)
C18_BufferShape ==
    /\ [](rcvstate = STATE_MARK => rawlen % 2 = 1)
    /\ [](rcvstate = STATE_SPACE => rawlen % 2 = 0 /\ rawlen >= 2)
    /\ [][(last' = "tick" /\ rawlen' = rawlen + 1 /\ rawlen >= 1) =>
              /\ wrIx' = rawlen
              /\ rawbuf'[rawlen] >= 1
              /\ (rawlen % 2 = 1) <=> (Level = SPACE)
              /\ pos > 1 =>
                    /\ rawbuf'[rawlen] = Runs(Head(signal))[pos - 1]
                    /\ rawlen = pos - 2]_vars

\* C19: a tick that samples SPACE in STATE_SPACE with the timer at
\* GAP_TICKS or more moves the sampler to STATE_STOP and leaves rawbuf and
\* rawlen as they are; a recording that a gap ends (not a full buffer) has
\* an even rawlen of at least 2, and its last entry, the one written last,
\* has an odd index: a MARK.
C19_TrailingGap ==
    /\ [][(/\ last' = "tick"
            /\ rcvstate = STATE_SPACE
            /\ Level = SPACE
            /\ (timer + 1) % U16 >= GAP_TICKS) =>
              /\ rcvstate' = STATE_STOP
              /\ UNCHANGED <<rawbuf, rawlen, wrIx>>]_vars
    /\ [][(/\ last' = "tick"
            /\ rcvstate # STATE_STOP
            /\ rcvstate' = STATE_STOP
            /\ ~BufferFull(rawlen)) =>
              /\ rcvstate = STATE_SPACE
              /\ timer' >= GAP_TICKS
              /\ rawlen' % 2 = 0
              /\ rawlen' >= 2
              /\ wrIx' = rawlen' - 1]_vars

\* C20: between ticks the timer is at most GAP_TICKS whenever rcvstate is
\* STATE_IDLE, and the entry 0 of every recording is GAP_TICKS or
\* GAP_TICKS + 1.
C20_IdleClamp ==
    /\ [](rcvstate = STATE_IDLE => timer <= GAP_TICKS)
    /\ [](rawlen >= 1 => rawbuf[0] \in {GAP_TICKS, GAP_TICKS + 1})
    /\ [][(last' = "tick" /\ rcvstate = STATE_IDLE /\ rcvstate' # STATE_IDLE) =>
              /\ rcvstate' = STATE_MARK
              /\ rawlen' = 1
              /\ wrIx' = 0
              /\ rawbuf'[0] = timer + 1
              /\ rawbuf'[0] \in {GAP_TICKS, GAP_TICKS + 1}]_vars

\* The entry at offset o matches k * t1 with the correction of its level
C21_Matches(o, k) ==
    IF o % 2 = 1 THEN MATCH_MARK(rawbuf[o], k * cursor.t1)
    ELSE MATCH_SPACE(rawbuf[o], k * cursor.t1)

\* The step is one of the k calls that the entry at cursor.offset takes:
\* it returns the level of the entry, and moves on to the next entry with
\* used = 0 if it is the k-th call on the entry, else stays
C21_Consumes(k) ==
    /\ cursor'.level = (IF cursor.offset % 2 = 1 THEN MARK ELSE SPACE)
    /\ cursor.n < k
    /\ IF cursor.n + 1 = k
       THEN cursor'.offset = cursor.offset + 1 /\ cursor'.used = 0
       ELSE cursor'.offset = cursor.offset

\* What getRClevel does past the end of the recording and on an entry that
\* matches no multiple of t1
C21_Edges ==
    /\ cursor.offset >= rawlen =>
          /\ cursor'.level = SPACE
          /\ cursor'.offset = cursor.offset
          /\ cursor'.used = cursor.used
    /\ (cursor.offset < rawlen /\ \A k \in 1..3 : ~C21_Matches(cursor.offset, k)) =>
          /\ cursor'.level = -1
          /\ cursor'.offset = cursor.offset
          /\ cursor'.used = cursor.used

\* C21 as stated: an entry below rawlen that matches k * t1, k in 1..3,
\* takes exactly k calls, each returning its level (MARK at an odd offset);
\* an entry that matches no multiple returns -1 and a call past the end
\* returns SPACE, both leaving offset and used alone.
C21_LevelCursorAnyMatch ==
    [][last' = "level" =>
          /\ C21_Edges
          /\ cursor.offset < rawlen =>
                \A k \in 1..3 : C21_Matches(cursor.offset, k) => C21_Consumes(k)]_vars

\* C21, amended: the same with k the smallest of 1, 2, 3 whose multiple of
\* t1 the entry matches (the bands of 2 * t1 and 3 * t1 overlap).
C21_LevelCursor ==
    [][last' = "level" =>
          /\ C21_Edges
          /\ cursor.offset < rawlen =>
                \A k \in 1..3 :
                    (/\ C21_Matches(cursor.offset, k)
                     /\ \A j \in 1..(k - 1) : ~C21_Matches(cursor.offset, j)) =>
                        C21_Consumes(k)]_vars

\* Entry 1 matches 2 * t1 and 3 * t1, and two calls have moved on to entry 2
C21_Witness ==
    /\ last = "level"
    /\ rawlen = 4
    /\ C21_Matches(1, 2)
    /\ C21_Matches(1, 3)
    /\ cursor.calls = 2
    /\ cursor.offset = 2
    /\ cursor.used = 0
    /\ cursor.level = MARK

\* C22: a call of onButton() that finds rcvstate = STATE_STOP goes on to
\* resume() whatever decode() and the code table give, and returns with
\* rcvstate = STATE_IDLE and rawlen = 0; with the foreground polling on,
\* every state with rcvstate = STATE_STOP is followed by such a return.
C22_ReadyPollResets ==
    /\ [][ReadyPoll => pc' = "resume_rawlen"]_vars
    /\ [][last' = "return" =>
              /\ pc' = "idle"
              /\ rcvstate' = STATE_IDLE
              /\ rawlen' = 0]_vars
    /\ (rcvstate = STATE_STOP) ~>
          (last = "return" /\ rcvstate = STATE_IDLE /\ rawlen = 0)

\* A call that decoded REPEAT and suppressed it has returned
C22_Witness ==
    /\ last = "return"
    /\ rcvstate = STATE_IDLE
    /\ rawlen = 0
    /\ decodeRet
    /\ value = REPEAT
    /\ repeat >= 1
    /\ repeat < REPEAT_PAUSE
    /\ ~ret
    /\ invoked = <<>>

\* C23: with REPEAT not in the code table, a poll whose frame decodes to
\* REPEAT invokes nothing but the action of the button decoded last before
\* it (nothing if that button's value is not in the table, or there was
\* none), and every frame that decodes to a value other than REPEAT leaves
\* the count of repeats at 0.
C23_RepeatOfLastButton ==
    /\ [][(/\ ReadyPoll
            /\ decodeRet'
            /\ value' = REPEAT
            /\ ~Mapped(code, REPEAT)
            /\ invoked' # <<>>) =>
              /\ recent.known
              /\ FirstMapped(code, recent.value, invoked')]_vars
    /\ [][(ReadyPoll /\ decodeRet' /\ value' # REPEAT) => repeat' = 0]_vars

\* rawbuf with the recording that waits and, past its end, the entries of
\* the earlier recording old
C24_Stale(old) == RecordedOver([i \in 1..rawlen |-> rawbuf[i - 1]], old)

\* C24: what a matcher, and decode() as a whole, returns for the recording
\* that waits (the flag and the Decoded Code fields) is what it returns with
\* any other entries past the end of the recording, those of any earlier
\* recording.
C24_OnlyRecorded ==
    [][(last' \in {"match", "decode"} /\ rcvstate = STATE_STOP) =>
          \A old \in Earlier :
              \A r \in {IF last' = "match"
                        THEN RunMatcher(matcher', C24_Stale(old), rawlen, Fields)
                        ELSE decode(C24_Stale(old), rawlen, Fields)} :
                  /\ r.ok = decodeRet'
                  /\ r.d.decode_type = decode_type'
                  /\ r.d.value = value'
                  /\ r.d.bits = bits'
                  /\ r.d.panasonicAddress = panasonicAddress']_vars

\* C25: a recording begun after more idle ticks than the number that
\* decodeSony and decodeSanyo compare rawbuf[0] with has a rawbuf[0] that
\* is not below that number, and no poll reports such a frame (every frame
\* of QuietSpec is one) as a REPEAT found by decodeSony or decodeSanyo.
C25_LongGapNoRepeat ==
    /\ [][(/\ last' = "tick"
            /\ rcvstate = STATE_IDLE
            /\ rcvstate' = STATE_MARK
            /\ signal # <<>>
            /\ Head(signal).gap > SONY_DOUBLE_SPACE_USECS
            /\ Head(signal).gap > SANYO_DOUBLE_SPACE_USECS) =>
              /\ rawbuf'[0] >= SONY_DOUBLE_SPACE_USECS
              /\ rawbuf'[0] >= SANYO_DOUBLE_SPACE_USECS]_vars
    /\ [][ReadyPoll =>
              ~(decodeRet' /\ matcher' \in {"Sony", "Sanyo"} /\ value' = REPEAT)]_vars
====
